---- MODULE Spec2Model ----
(***************************************************************************)
(* A model of the PHP debug manager: the debug-statement scanner           *)
(* (DebugScanner), the staging guard (StagingGuard) and the clear          *)
(* operations of the tree data provider (DebugDataProvider).               *)
(*                                                                         *)
(* Text is modelled character by character: a string is a sequence of      *)
(* one-character strings, offsets reported by the program (column, indexOf)*)
(* are 0-based as in the source, sequence positions are 1-based.           *)
(***************************************************************************)
EXTENDS Integers, Sequences, FiniteSets, TLC

\* ------------------------------------------------------------------------
\* Characters and the string primitives of the host language
\* ------------------------------------------------------------------------

LowerSeq == <<"a", "b", "c", "d", "e", "f", "g", "h", "i", "j", "k", "l", "m", "n", "o", "p", "q", "r", "s", "t", "u", "v", "w", "x", "y", "z">>

UpperSeq == <<"A", "B", "C", "D", "E", "F", "G", "H", "I", "J", "K", "L", "M", "N", "O", "P", "Q", "R", "S", "T", "U", "V", "W", "X", "Y", "Z">>

DigitChars == {"0", "1", "2", "3", "4", "5", "6", "7", "8", "9"}

\* \s of the regular expressions (the blanks that occur in one line of text)
IsSpace(c) == c \in {" ", "\t"}

\* \w of the regular expressions
IsWordChar(c) ==
  \/ \E i \in 1..26 : c = LowerSeq[i] \/ c = UpperSeq[i]
  \/ c \in DigitChars
  \/ c = "_"

toLowerChar(c) ==
  IF \E i \in 1..26 : c = UpperSeq[i]
  THEN LowerSeq[CHOOSE i \in 1..26 : c = UpperSeq[i]]
  ELSE c

\* String.prototype.toLowerCase
toLowerCase(t) == [i \in 1..Len(t) |-> toLowerChar(t[i])]

Min(S) == CHOOSE x \in S : \A y \in S : x <= y

Max(S) == CHOOSE x \in S : \A y \in S : x >= y

\* w occurs in t at the 1-based position p
StartsWithAt(t, p, w) ==
  /\ p >= 1
  /\ p + Len(w) - 1 <= Len(t)
  /\ \A k \in 1..Len(w) : t[p + k - 1] = w[k]

\* String.prototype.includes
includes(t, w) == \E p \in 1..Len(t) : StartsWithAt(t, p, w)

\* String.prototype.indexOf(w, from): 0-based, -1 when absent
indexOf(t, w, from) ==
  LET f == IF from < 0 THEN 0 ELSE from
      hits == {i \in f..(Len(t) - Len(w)) : StartsWithAt(t, i + 1, w)}
  IN IF hits = {} THEN -1 ELSE Min(hits)

\* String.prototype.slice(a, b) with its clamping of negative and large offsets
slice(t, a, b) ==
  LET n == Len(t)
      lo == IF a < 0 THEN (IF n + a < 0 THEN 0 ELSE n + a) ELSE (IF a > n THEN n ELSE a)
      hi == IF b < 0 THEN (IF n + b < 0 THEN 0 ELSE n + b) ELSE (IF b > n THEN n ELSE b)
  IN IF lo >= hi THEN << >> ELSE SubSeq(t, lo + 1, hi)

\* the 1-based position of the first non-blank character at or after p
\* (Len(t) + 1 when there is none): what \s* consumes
SkipSpaces(t, p) ==
  Min({j \in p..(Len(t) + 1) :
         /\ \A k \in p..(j - 1) : IsSpace(t[k])
         /\ (j = Len(t) + 1 \/ ~IsSpace(t[j]))})

\* String.prototype.trim
trim(t) ==
  LET keep == {i \in 1..Len(t) : ~IsSpace(t[i])}
  IN IF keep = {} THEN << >> ELSE SubSeq(t, Min(keep), Max(keep))

\* ------------------------------------------------------------------------
\* PatternClassifier: matchTypeFromText, getStatementType, severity
\* ------------------------------------------------------------------------

StatementTypes ==
  {"var_dump", "print_r", "echo", "print", "var_export", "printf", "die", "exit", "error_log", "trigger_error", "user_error", "debug_backtrace", "dump", "dd", "xdebug_var_dump", "xdebug_debug_zval", "xdebug_break"}

\* tokenMap / tokenMap2: the text of the token of each type
tokenMap(type) ==
  CASE type = "var_dump" -> <<"v", "a", "r", "_", "d", "u", "m", "p">>
    [] type = "print_r" -> <<"p", "r", "i", "n", "t", "_", "r">>
    [] type = "echo" -> <<"e", "c", "h", "o">>
    [] type = "print" -> <<"p", "r", "i", "n", "t">>
    [] type = "var_export" -> <<"v", "a", "r", "_", "e", "x", "p", "o", "r", "t">>
    [] type = "printf" -> <<"p", "r", "i", "n", "t", "f">>
    [] type = "die" -> <<"d", "i", "e">>
    [] type = "exit" -> <<"e", "x", "i", "t">>
    [] type = "error_log" -> <<"e", "r", "r", "o", "r", "_", "l", "o", "g">>
    [] type = "trigger_error" -> <<"t", "r", "i", "g", "g", "e", "r", "_", "e", "r", "r", "o", "r">>
    [] type = "user_error" -> <<"u", "s", "e", "r", "_", "e", "r", "r", "o", "r">>
    [] type = "debug_backtrace" -> <<"d", "e", "b", "u", "g", "_", "b", "a", "c", "k", "t", "r", "a", "c", "e">>
    [] type = "dump" -> <<"d", "u", "m", "p">>
    [] type = "dd" -> <<"d", "d">>
    [] type = "xdebug_var_dump" -> <<"x", "d", "e", "b", "u", "g", "_", "v", "a", "r", "_", "d", "u", "m", "p">>
    [] type = "xdebug_debug_zval" -> <<"x", "d", "e", "b", "u", "g", "_", "d", "e", "b", "u", "g", "_", "z", "v", "a", "l">>
    [] type = "xdebug_break" -> <<"x", "d", "e", "b", "u", "g", "_", "b", "r", "e", "a", "k">>

\* /^\s*<word>\s*\(/ at the 1-based position p of the lower-cased text
CallShape(t, p, w) ==
  /\ StartsWithAt(t, p, w)
  /\ LET q == SkipSpaces(t, p + Len(w)) IN q <= Len(t) /\ t[q] = "("

\* /^\s*<word>\s+/
BlankShape(t, p, w) ==
  /\ StartsWithAt(t, p, w)
  /\ p + Len(w) <= Len(t)
  /\ IsSpace(t[p + Len(w)])

\* /^\s*<word>\b/
WordShape(t, p, w) ==
  /\ StartsWithAt(t, p, w)
  /\ (p + Len(w) > Len(t) \/ ~IsWordChar(t[p + Len(w)]))

\* matchTypeFromText; "none" stands for null
matchTypeFromText(text) ==
  LET t == toLowerCase(text)
      p == SkipSpaces(t, 1)
  IN CASE CallShape(t, p, tokenMap("dd")) -> "dd"
       [] CallShape(t, p, tokenMap("var_dump")) -> "var_dump"
       [] CallShape(t, p, tokenMap("print_r")) -> "print_r"
       [] BlankShape(t, p, tokenMap("echo")) -> "echo"
       [] BlankShape(t, p, tokenMap("print")) -> "print"
       [] CallShape(t, p, tokenMap("var_export")) -> "var_export"
       [] CallShape(t, p, tokenMap("printf")) -> "printf"
       [] WordShape(t, p, tokenMap("die")) \/ WordShape(t, p, tokenMap("exit")) ->
            IF includes(t, tokenMap("exit")) THEN "exit" ELSE "die"
       [] CallShape(t, p, tokenMap("error_log")) -> "error_log"
       [] CallShape(t, p, tokenMap("trigger_error")) -> "trigger_error"
       [] CallShape(t, p, tokenMap("user_error")) -> "user_error"
       [] CallShape(t, p, tokenMap("debug_backtrace")) -> "debug_backtrace"
       [] CallShape(t, p, tokenMap("dump")) -> "dump"
       [] CallShape(t, p, tokenMap("xdebug_var_dump")) -> "xdebug_var_dump"
       [] CallShape(t, p, tokenMap("xdebug_debug_zval")) -> "xdebug_debug_zval"
       [] WordShape(t, p, tokenMap("xdebug_break")) -> "xdebug_break"
       [] OTHER -> "none"

\* getStatementType: var_dump when the text has no type
getStatementType(content) ==
  LET type == matchTypeFromText(content)
  IN IF type = "none" THEN "var_dump" ELSE type

quickCheck(line) == matchTypeFromText(line) # "none"

\* getStatementSeverity: decided by substrings of the statement's content
getStatementSeverity(content) ==
  LET lower == toLowerCase(content)
  IN IF \/ includes(lower, tokenMap("die"))
        \/ includes(lower, tokenMap("exit"))
        \/ includes(lower, tokenMap("dd"))
     THEN "error"
     ELSE IF \/ includes(lower, tokenMap("error_log"))
             \/ includes(lower, tokenMap("trigger_error"))
             \/ includes(lower, tokenMap("user_error"))
          THEN "warning"
          ELSE "info"

isDebugSegment(txt) == matchTypeFromText(txt) # "none"

\* /\s*(?:\([^)]*\))?\s*;\s*$/ from the 1-based position a of t, which is not
\* blank: the optional parenthesised argument ends at its first ")"
exitTail(t, a, closers) ==
  LET b == IF a <= Len(t) /\ t[a] = "(" /\ closers # {}
           THEN SkipSpaces(t, Min(closers) + 1)
           ELSE a
  IN /\ b <= Len(t)
     /\ t[b] = ";"
     /\ SkipSpaces(t, b + 1) = Len(t) + 1

exitTailAt(t, a) == exitTail(t, a, {c \in (a + 1)..Len(t) : t[c] = ")"})

exitOnlyText(t) ==
  \/ StartsWithAt(t, 1, tokenMap("exit")) /\ exitTailAt(t, SkipSpaces(t, 5))
  \/ StartsWithAt(t, 1, tokenMap("die")) /\ exitTailAt(t, SkipSpaces(t, 4))

\* isExitOnlySegment: /^\s*(?:exit|die)\s*(?:\([^)]*\))?\s*;\s*$/ on the
\* trimmed, lower-cased text
isExitOnlySegment(txt) == exitOnlyText(trim(toLowerCase(txt)))

\* after.search(/\b(?:exit|die)\b/): 0-based, -1 when absent, case-sensitive
searchExitDie(t) ==
  LET hit(i, w) ==
        /\ StartsWithAt(t, i + 1, w)
        /\ (i = 0 \/ ~IsWordChar(t[i]))
        /\ (i + Len(w) >= Len(t) \/ ~IsWordChar(t[i + Len(w) + 1]))
      hits == {i \in 0..(Len(t) - 1) :
                 hit(i, tokenMap("exit")) \/ hit(i, tokenMap("die"))}
  IN IF hits = {} THEN -1 ELSE Min(hits)

\* findEnd / findEnd2: the offset just after the first ";" outside quotes at or
\* after `from`, the length of the text when there is none
RECURSIVE findEndFrom(_, _, _, _, _)
findEndFrom(text, i, inStr, q, esc) ==
  IF i >= Len(text) THEN Len(text)
  ELSE LET ch == text[i + 1] IN
    IF inStr
    THEN IF ch = "\\" THEN findEndFrom(text, i + 1, TRUE, q, ~esc)
         ELSE IF ch = q /\ ~esc THEN findEndFrom(text, i + 1, FALSE, "", FALSE)
         ELSE findEndFrom(text, i + 1, TRUE, q, FALSE)
    ELSE IF ch = "\"" \/ ch = "'" THEN findEndFrom(text, i + 1, TRUE, ch, FALSE)
         ELSE IF ch = ";" THEN i + 1
         ELSE findEndFrom(text, i + 1, FALSE, q, esc)

findEnd(text, from) == findEndFrom(text, IF from < 0 THEN 0 ELSE from, FALSE, "", FALSE)

\* ------------------------------------------------------------------------
\* scanFile, one line at a time
\* ------------------------------------------------------------------------

\* A text cut out of a line.  ch is the text the code works on; at gives, for
\* each of its characters, that character's offset in the original line.  The
\* code keeps no such record (its mapIdx is the identity, see mapIdx): at is
\* carried only so that properties can name true source positions.
Txt(line) == [ch |-> line, at |-> [i \in 1..Len(line) |-> i - 1]]

txtSlice(x, a, b) == [ch |-> slice(x.ch, a, b), at |-> slice(x.at, a, b)]

txtCat(x, y) == [ch |-> x.ch \o y.ch, at |-> x.at \o y.at]

CommentOpen == <<"/", "*">>

CommentClose == <<"*", "/">>

\* the state scanFile carries from line to line
LineState0 == [inBlockComment |-> FALSE, inString |-> FALSE, stringDelimiter |-> ""]

\* The block comment handling of a line once a comment carried into it has
\* been closed: x1 is lineToScan, startBlock and endBlock are the offsets of
\* the first comment opener and of the closer after it.
blockCut(x1, startBlock, endBlock) ==
  IF startBlock = -1
  THEN [skip |-> FALSE, text |-> x1, inBlockComment |-> FALSE]
  ELSE IF endBlock # -1
  THEN [skip |-> FALSE,
        text |-> txtCat(txtSlice(x1, 0, startBlock),
                        txtSlice(x1, endBlock + 2, Len(x1.ch))),
        inBlockComment |-> FALSE]
  ELSE [skip |-> FALSE, text |-> txtSlice(x1, 0, startBlock), inBlockComment |-> TRUE]

blockOpen(x1, startBlock) ==
  blockCut(x1, startBlock, indexOf(x1.ch, CommentClose, startBlock + 2))

lineCommentOrBlock(x1, trimmed) ==
  IF StartsWithAt(trimmed, 1, <<"/", "/">>) \/ StartsWithAt(trimmed, 1, <<"#">>)
  THEN [skip |-> TRUE, text |-> x1, inBlockComment |-> FALSE]
  ELSE blockOpen(x1, indexOf(x1.ch, CommentOpen, 0))

blockClose(x0, endIdx) ==
  IF endIdx = -1
  THEN [skip |-> TRUE, text |-> x0, inBlockComment |-> TRUE]
  ELSE lineCommentOrBlock(txtSlice(x0, endIdx + 2, Len(x0.ch)),
                          trim(slice(x0.ch, endIdx + 2, Len(x0.ch))))

\* The block comment handling of one line: skip tells that the line is left
\* (`continue`), text is lineToScan, inBlockComment the flag after the line.
blockStage(originalLine, inBlockComment) ==
  IF inBlockComment
  THEN blockClose(Txt(originalLine), indexOf(originalLine, CommentClose, 0))
  ELSE lineCommentOrBlock(Txt(originalLine), trim(originalLine))

\* a quote that closes a string whatever stands before it
closesAlways(ch, stringDelimiter, lastWasBackslash) == ch = stringDelimiter

\* the test that ends a string: a quote of the kind that opened it, not
\* escaped by a backslash
closesString(ch, stringDelimiter, lastWasBackslash) ==
  ch = stringDelimiter /\ ~lastWasBackslash

\* The sanitizer loop: keep is the sequence of the 1-based positions of
\* lineToScan that are kept (code characters).
RECURSIVE sanitizeFrom(_, _, _, _, _, _)
sanitizeFrom(l, j, inString, stringDelimiter, lastWasBackslash, keep) ==
  IF j > Len(l)
  THEN [keep |-> keep, inString |-> inString, stringDelimiter |-> stringDelimiter]
  ELSE LET ch == l[j] IN
    IF inString
    THEN IF ch = "\\"
         THEN sanitizeFrom(l, j + 1, TRUE, stringDelimiter, ~lastWasBackslash, keep)
         ELSE IF closesString(ch, stringDelimiter, lastWasBackslash)
         THEN sanitizeFrom(l, j + 1, FALSE, "", FALSE, keep)
         ELSE sanitizeFrom(l, j + 1, TRUE, stringDelimiter, FALSE, keep)
    ELSE IF ch = "\"" \/ ch = "'"
         THEN sanitizeFrom(l, j + 1, TRUE, ch, FALSE, keep)
         ELSE IF ch = "/" /\ j + 1 <= Len(l) /\ l[j + 1] = "/"
         THEN [keep |-> keep, inString |-> FALSE, stringDelimiter |-> stringDelimiter]
         ELSE IF ch = "#"
         THEN [keep |-> keep, inString |-> FALSE, stringDelimiter |-> stringDelimiter]
         ELSE sanitizeFrom(l, j + 1, FALSE, stringDelimiter, lastWasBackslash,
                           Append(keep, j))

\* the sanitized line, with the string state after it
sanitizeOutcome(x, r) ==
  [text |-> [ch |-> [i \in 1..Len(r.keep) |-> x.ch[r.keep[i]]],
             at |-> [i \in 1..Len(r.keep) |-> x.at[r.keep[i]]]],
   inString |-> r.inString,
   stringDelimiter |-> r.stringDelimiter]

sanitize(x, inString, stringDelimiter) ==
  sanitizeOutcome(x, sanitizeFrom(x.ch, 1, inString, stringDelimiter, FALSE, << >>))

\* mapIdx: built by pushing j for every j of the sanitized text, so it maps an
\* offset of the sanitized text to the same offset
mapIdx(j) == j

\* the segments of the sanitized text: every ";" ends one; the text after the
\* last ";" is dropped
RECURSIVE segmentsFrom(_, _, _, _)
segmentsFrom(sanitized, k, segStart, segments) ==
  IF k >= Len(sanitized) THEN segments
  ELSE IF sanitized[k + 1] = ";"
       THEN LET segText == slice(sanitized, segStart, k + 1)
            IN segmentsFrom(sanitized, k + 1, k + 1,
                 IF Len(trim(segText)) > 0
                 THEN Append(segments, [text |-> segText, startSan |-> segStart, endSan |-> k])
                 ELSE segments)
       ELSE segmentsFrom(sanitized, k + 1, segStart, segments)

\* the text after the last ";" of a text (the whole text when it has none)
tailOf(sanitized) ==
  slice(sanitized,
        Max({0} \cup {k \in 1..Len(sanitized) : sanitized[k] = ";"}),
        Len(sanitized))

\* a segmentation that keeps the text after the last ";" as a segment
segmentsWithTail(sanitized) ==
  IF Len(trim(tailOf(sanitized))) > 0
  THEN Append(segmentsFrom(sanitized, 0, 0, << >>),
              [text |-> tailOf(sanitized),
               startSan |-> Len(sanitized) - Len(tailOf(sanitized)),
               endSan |-> Len(sanitized) - 1])
  ELSE segmentsFrom(sanitized, 0, 0, << >>)

segmentsOf(sanitized) == segmentsFrom(sanitized, 0, 0, << >>)

\* createDebugStatement.  id is `${filePath}:${lineNumber}:${column}` and
\* relativePath is filePath relative to the workspace root: both are functions
\* of the fields kept here.
createDebugStatement(filePath, lineNumber, column, content, context, type, severity) ==
  [filePath |-> filePath, lineNumber |-> lineNumber, column |-> column,
   content |-> trim(content), context |-> trim(context),
   type |-> type, severity |-> severity]

StatementId(st) == <<st.filePath, st.lineNumber, st.column>>

\* The statements are built by operators that take the values the code holds
\* in local constants (startTok, end1, ...) as parameters.

\* originalLine.indexOf(tok, approx), then originalLine.indexOf(tok) if absent
locateFrom(originalLine, tok, first) ==
  IF first < 0 THEN indexOf(originalLine, tok, 0) ELSE first

locateWord(originalLine, tok, approx) ==
  locateFrom(originalLine, tok, indexOf(originalLine, tok, approx))

\* the offset at which the token of the segment is looked up in the original line
locateToken(originalLine, seg) ==
  locateWord(originalLine, tokenMap(getStatementType(seg.text)), mapIdx(seg.startSan))

pushStatement(filePath, lineNumber, originalLine, type, column, content) ==
  createDebugStatement(filePath, lineNumber, column, content, originalLine, type,
                       getStatementSeverity(content))

combinedEnd(originalLine, end1, exitIdxLocal) ==
  IF exitIdxLocal >= 0 THEN findEnd(originalLine, end1 + exitIdxLocal) ELSE end1

combinedFrom(filePath, lineNumber, originalLine, type, startTok, end1) ==
  pushStatement(filePath, lineNumber, originalLine, type, startTok,
    slice(originalLine, startTok,
          combinedEnd(originalLine, end1,
                      searchExitDie(slice(originalLine, end1, Len(originalLine))))))

combinedAt(filePath, lineNumber, originalLine, type, startTok) ==
  combinedFrom(filePath, lineNumber, originalLine, type, startTok,
               findEnd(originalLine, startTok))

\* the statement of a debug segment merged with the exit/die segment after it
combinedStatement(filePath, lineNumber, originalLine, seg) ==
  combinedAt(filePath, lineNumber, originalLine, getStatementType(seg.text),
             locateToken(originalLine, seg))

singleAt(filePath, lineNumber, originalLine, segType, startIdx) ==
  pushStatement(filePath, lineNumber, originalLine, segType, startIdx,
    slice(originalLine, startIdx, findEnd(originalLine, startIdx)))

\* the statement of a segment emitted on its own
singleStatement(filePath, lineNumber, originalLine, seg) ==
  singleAt(filePath, lineNumber, originalLine, getStatementType(seg.text),
           locateToken(originalLine, seg))

\* the record of a statement pushed: st is the statement, seg the 1-based index
\* of the segment it was made from, merged tells that the next segment was
\* consumed with it, tokAt is the offset in the original line of the first
\* non-blank character of the segment, endAt the offset in the original line
\* of the semicolon that ends the last segment consumed
emission(st, s, merged, at, seg, last) ==
  [st |-> st, seg |-> s, merged |-> merged,
   tokAt |-> at[seg.startSan + SkipSpaces(seg.text, 1)],
   endAt |-> at[last.endSan + 1]]

\* a loop over the segments that steps over no segment
stepsOverNone(s) == s + 1

\* the index the loop goes on with after a merge: the exit/die segment is
\* stepped over (s++ before the s++ of the loop)
afterMerge(s) == s + 2

\* the loop over the segments of a line
RECURSIVE emitFrom(_, _, _, _, _, _, _)
emitFrom(filePath, lineNumber, originalLine, at, segments, s, out) ==
  IF s > Len(segments) THEN out
  ELSE IF /\ isDebugSegment(segments[s].text)
          /\ s + 1 <= Len(segments)
          /\ isExitOnlySegment(segments[s + 1].text)
       THEN emitFrom(filePath, lineNumber, originalLine, at, segments, afterMerge(s),
              Append(out, emission(combinedStatement(filePath, lineNumber, originalLine,
                                                     segments[s]),
                                   s, TRUE, at, segments[s], segments[s + 1])))
       ELSE emitFrom(filePath, lineNumber, originalLine, at, segments, s + 1,
              IF matchTypeFromText(segments[s].text) # "none"
              THEN Append(out, emission(singleStatement(filePath, lineNumber, originalLine,
                                                        segments[s]),
                                        s, FALSE, at, segments[s], segments[s]))
              ELSE out)

\* the part of the loop body after the sanitizer: z is its outcome
scanSanitized(filePath, lineNumber, originalLine, inBlockComment, z) ==
  [emits |-> IF quickCheck(z.text.ch)
             THEN emitFrom(filePath, lineNumber, originalLine, z.text.at,
                           segmentsOf(z.text.ch), 1, << >>)
             ELSE << >>,
   state |-> [inBlockComment |-> inBlockComment,
              inString |-> z.inString,
              stringDelimiter |-> z.stringDelimiter],
   sanitized |-> z.text.ch,
   segments |-> IF quickCheck(z.text.ch) THEN segmentsOf(z.text.ch) ELSE << >>]

\* the part of the loop body after the block comment handling: b is its outcome
scanStaged(filePath, lineNumber, originalLine, state, b) ==
  IF b.skip
  THEN [emits |-> << >>, state |-> [state EXCEPT !.inBlockComment = b.inBlockComment],
        sanitized |-> << >>, segments |-> << >>]
  ELSE scanSanitized(filePath, lineNumber, originalLine, b.inBlockComment,
                     sanitize(b.text, state.inString, state.stringDelimiter))

\* One iteration of the loop over the lines of scanFile: the statements pushed
\* for the line and the state carried to the next line.
scanLine(filePath, lineNumber, originalLine, state) ==
  scanStaged(filePath, lineNumber, originalLine, state,
             blockStage(originalLine, state.inBlockComment))

statementsOf(emits) == [k \in 1..Len(emits) |-> emits[k].st]

scanLinesOn(filePath, lines, i, statements, r) ==
  [state |-> r.state, statements |-> statements \o statementsOf(r.emits)]

\* the scan of a whole content (content.split('\n') is the sequence lines)
RECURSIVE scanLinesFrom(_, _, _, _)
scanLinesFrom(filePath, lines, i, acc) ==
  IF i > Len(lines) THEN acc.statements
  ELSE scanLinesFrom(filePath, lines, i + 1,
         scanLinesOn(filePath, lines, i, acc.statements,
                     scanLine(filePath, i, lines[i], acc.state)))

\* what scanFile computes from the content it read
scanContent(filePath, lines) ==
  scanLinesFrom(filePath, lines, 1, [state |-> LineState0, statements |-> << >>])

\* ------------------------------------------------------------------------
\* The file system and the scanner instance
\* ------------------------------------------------------------------------

\* File paths, named by their rank in the order of String.localeCompare.
AllPaths == {1, 2, 3, 4, 5}

\* The directories: 0 is the workspace folder /w, 6 the directory /w/b in it.
Directories == {0, 6}

\* the path a number stands for
pathName(p) ==
  CASE p = 0 -> <<"/", "w">>
    [] p = 1 -> <<"/", "w", "/", "a", ".", "p", "h", "p">>
    [] p = 2 -> <<"/", "w", "/", "b", "/", "c", ".", "p", "h", "p">>
    [] p = 3 -> <<"/", "w", "/", "b", "/", "d", ".", "p", "h", "p">>
    [] p = 4 -> <<"/", "w", "/", "e", ".", "t", "x", "t">>
    [] p = 5 -> <<"/", "w", "/", "f", ".", "P", "H", "P">>
    [] p = 6 -> <<"/", "w", "/", "b">>
    [] p = 7 -> <<"/", "w", "/", "g", "/", "a", ".", "p", "h", "p">>
    [] p = 8 -> <<"/", "w", "/", "g", "/", "b", "/", "c", ".", "p", "h", "p">>

\* the directory a file is an entry of
dirOf(p) == IF pathName(6) \o <<"/">> = SubSeq(pathName(p), 1, Len(pathName(6)) + 1)
            THEN 6 ELSE 0

\* String.prototype.endsWith
endsWith(t, w) == Len(t) >= Len(w) /\ SubSeq(t, Len(t) - Len(w) + 1, Len(t)) = w

\* p.toLowerCase().endsWith('.php')
endsWithPhp(p) == endsWith(toLowerCase(pathName(p)), <<".", "p", "h", "p">>)

\* entry.name.endsWith('.php') in collectFiles
entryEndsWithPhp(p) == endsWith(pathName(p), <<".", "p", "h", "p">>)

\* a.filePath.localeCompare(b.filePath)
localeCompare(a, b) == a - b

\* normalizePath: p.replace(/\\/g, '/')
normalizePath(p) == [k \in 1..Len(p) |-> IF p[k] = "\\" THEN "/" ELSE p[k]]

\* the characters of the class [.+^${}()|\[\]\\] of globToRegExp
EscapedInGlob == {".", "+", "^", "$", "{", "}", "(", ")", "|", "[", "]", "\\"}

\* glob.replace(/[.+^${}()|\[\]\\]/g, '\\$&')
RECURSIVE escapeGlob(_, _)
escapeGlob(glob, i) ==
  IF i > Len(glob) THEN << >>
  ELSE IF glob[i] \in EscapedInGlob
  THEN <<"\\", glob[i]>> \o escapeGlob(glob, i + 1)
  ELSE <<glob[i]>> \o escapeGlob(glob, i + 1)

\* .replace(/\*\*/g, '.*')
RECURSIVE replaceStarStar(_, _)
replaceStarStar(t, i) ==
  IF i > Len(t) THEN << >>
  ELSE IF t[i] = "*" /\ i < Len(t) /\ t[i + 1] = "*"
  THEN <<".", "*">> \o replaceStarStar(t, i + 2)
  ELSE <<t[i]>> \o replaceStarStar(t, i + 1)

\* .replace(/\*/g, '[^/]*'): every star, those the step before wrote included
RECURSIVE replaceStar(_, _)
replaceStar(t, i) ==
  IF i > Len(t) THEN << >>
  ELSE IF t[i] = "*"
  THEN <<"[", "^", "/", "]", "*">> \o replaceStar(t, i + 1)
  ELSE <<t[i]>> \o replaceStar(t, i + 1)

\* globToRegExp: new RegExp('^' + escaped + '$', 'i')
globToRegExp(glob) ==
  [source |-> <<"^">> \o replaceStar(replaceStarStar(escapeGlob(glob, 1), 1), 1) \o <<"$">>,
   ignoreCase |-> TRUE]

\* The atom of a regular expression at position i of its source: an escaped
\* character, the dot, a negated class, or a character that stands for
\* itself; len is the length of its text.
RECURSIVE classEnd(_, _)
classEnd(source, i) ==
  IF i > Len(source) \/ source[i] = "]" THEN i ELSE classEnd(source, i + 1)

atomAt(source, i) ==
  IF source[i] = "\\" /\ i < Len(source)
  THEN [kind |-> "char", chars |-> {source[i + 1]}, len |-> 2]
  ELSE IF source[i] = "."
  THEN [kind |-> "any", chars |-> {}, len |-> 1]
  ELSE IF source[i] = "[" /\ i < Len(source) /\ source[i + 1] = "^"
  THEN [kind |-> "not",
        chars |-> {source[k] : k \in (i + 2)..(classEnd(source, i) - 1)},
        len |-> classEnd(source, i) - i + 1]
  ELSE [kind |-> "char", chars |-> {source[i]}, len |-> 1]

\* a character against an atom, under the flag i
atomMatches(atom, ch, ignoreCase) ==
  LET same(a, b) == IF ignoreCase THEN toLowerChar(a) = toLowerChar(b) ELSE a = b
  IN CASE atom.kind = "any" -> TRUE
       [] atom.kind = "not" -> \A c \in atom.chars : ~same(c, ch)
       [] OTHER -> \E c \in atom.chars : same(c, ch)

\* the source from position i on matches the text from position j on
RECURSIVE matchFrom(_, _, _, _, _)
matchFrom(source, i, text, j, ignoreCase) ==
  IF i > Len(source) THEN TRUE
  ELSE IF source[i] = "^" THEN j = 1 /\ matchFrom(source, i + 1, text, j, ignoreCase)
  ELSE IF source[i] = "$"
  THEN j = Len(text) + 1 /\ matchFrom(source, i + 1, text, j, ignoreCase)
  ELSE LET atom == atomAt(source, i)
           next == i + atom.len
           here == j <= Len(text) /\ atomMatches(atom, text[j], ignoreCase)
       IN IF next <= Len(source) /\ source[next] = "*"
          THEN \/ here /\ matchFrom(source, i, text, j + 1, ignoreCase)
               \/ matchFrom(source, next + 1, text, j, ignoreCase)
          ELSE here /\ matchFrom(source, next, text, j + 1, ignoreCase)

\* RegExp.prototype.test
test(r, text) ==
  \E start \in 1..(Len(text) + 1) : matchFrom(r.source, 1, text, start, r.ignoreCase)

\* The pattern an entry of excludePatterns stands for: for the path of a
\* file the path itself (exclude.addFile), for the path of a directory
\* `${node.filePath}/**` (exclude.addDir)
patternOf(q) ==
  IF q \in Directories THEN pathName(q) \o <<"/", "*", "*">> ELSE pathName(q)

\* the paths that the matcher compiled from the pattern of q matches:
\* r.test(this.normalizePath(fullPath))
matchedBy(q) ==
  {p \in AllPaths \cup Directories :
     test(globToRegExp(patternOf(q)), normalizePath(pathName(p)))}

\* the contents a file can have: sequences of lines
ContentTwo == << <<"d", "d", "(", "1", ")", ";">>,
                 <<"e", "c", "h", "o", " ", "2", ";">> >>

ContentOne == << <<"$", "a", "=", "1", ";">>, <<"e", "x", "i", "t", ";">> >>

ContentNone == << <<"$", "a", "=", "1", ";">> >>

Contents == {ContentTwo, ContentOne}

\* the content of a path that does not exist (stat and readFile fail)
Missing == << <<"missing">> >>

\* phpDebugManager.maxFileSize
maxFileSize == 1048576

FileSizes == {maxFileSize, maxFileSize + 1}

batchSize == 50

\* the number of modifications of files the environment makes in one behaviour
MaxMods == 1

\* a path that fileCache / scanResults has no entry for
NoCache == [has |-> FALSE, mtime |-> 0, size |-> 0, hash |-> <<0, 0>>]

NoStatements == [has |-> FALSE, statements |-> << >>]

NoStats == [size |-> 0, mtime |-> 0]

EmptyResult ==
  [statements |-> << >>, scannedFiles |-> 0, totalStatements |-> 0,
   errors |-> << >>, scanTime |-> 0]

VARIABLES
  fs,              \* path -> [size, mtime, content]: the files on disk
  excluded,        \* the paths that DebugScanner.excludeRegexes match (isExcluded)
  onScanComplete,  \* whether startWatching has set the callback
  scanInProgress,  \* DebugScanner.scanInProgress
  fileCache,       \* DebugScanner.fileCache: path -> [mtime, size, hash] or NoCache
  scanResults,     \* DebugScanner.scanResults: path -> statements or NoStatements
  call,            \* caller -> the scanWorkspace / scanFiles call it has made
  index,           \* repository -> the paths in its index (staged)
  prevStaged,      \* StagingGuard.prevStaged
  handler,         \* caller -> the run of the onDidChange handler it stands for
  mode,            \* stagingGuard.mode
  doc,             \* file -> the lines of the open document
  lastScanResult,  \* DebugDataProvider.lastScanResult.statements
  bookmarks,       \* DebugDataProvider.bookmarks: a set of statement ids
  lex,             \* the scan of one file, line by line
  unlistable,      \* the directories that fs.promises.readdir cannot list
  scanErrors,      \* DebugScanner.scanErrors
  watch,           \* the file watcher: its events and the timers it has set
  expr,            \* a text handed to the expression validator
  dump,            \* the editor: its document and a run of dumpVariable
  view,            \* DebugManagerView: its queue of updates
  tree             \* DebugDataProvider: treeData, resultCache and a getChildren call

scannerVars == <<onScanComplete, scanInProgress, fileCache, scanResults, call>>

envVars == <<fs, excluded>>

guardVars == <<index, prevStaged, handler, mode>>

clearVars == <<doc, lastScanResult, bookmarks>>

dirVars == <<unlistable, scanErrors>>

sideVars == <<watch, expr, dump, view, tree>>

vars == <<fs, excluded, onScanComplete, scanInProgress, fileCache, scanResults, call,
          index, prevStaged, handler, mode,
          doc, lastScanResult, bookmarks, lex, unlistable, scanErrors, watch, expr, dump,
          view, tree>>

\* the concurrent callers of one scanner instance
Callers == {1, 2}

\* isExcluded: this.excludeRegexes.some(r => r.test(p))
isExcluded(p) == p \in excluded

\* getFileHash: `${stats.size}-${stats.mtime.getTime()}`
getFileHash(stats) == <<stats.size, stats.mtime>>

\* a scanFile that never takes the cached list
cacheNeverHit(cached, fileHash) == FALSE

\* the cache check of scanFile: cached && cached.hash === fileHash
cacheHit(cached, fileHash) == cached.has /\ cached.hash = fileHash

\* this.scanResults.get(filePath) || []
cachedStatements(p) == IF scanResults[p].has THEN scanResults[p].statements ELSE << >>

\* Array.prototype.sort with the comparator of scanWorkspace and scanFiles
\* (a stable sort: an insertion from the left keeps equal elements in order)
compareStatements(a, b) ==
  IF localeCompare(a.filePath, b.filePath) # 0
  THEN localeCompare(a.filePath, b.filePath)
  ELSE a.lineNumber - b.lineNumber

RECURSIVE insertSorted(_, _)
insertSorted(sorted, x) ==
  IF sorted = << >> THEN <<x>>
  ELSE IF compareStatements(sorted[Len(sorted)], x) <= 0 THEN Append(sorted, x)
  ELSE Append(insertSorted(SubSeq(sorted, 1, Len(sorted) - 1), x), sorted[Len(sorted)])

RECURSIVE sortFrom(_, _, _)
sortFrom(statements, i, sorted) ==
  IF i > Len(statements) THEN sorted
  ELSE sortFrom(statements, i + 1, insertSorted(sorted, statements[i]))

\* a result whose statements are left in the order of the merge
unsortedStatements(statements) == statements

sortStatements(statements) == sortFrom(statements, 1, << >>)

\* ------------------------------------------------------------------------
\* scanWorkspace and scanFiles
\* ------------------------------------------------------------------------

\* Date.now() - startTime of a scan that ran: any duration, 0 included
ScanTimes == {0, 1}

\* A call: pc tells where it is ("idle": not made; "collecting": in
\* collectFiles; "scanning": awaiting the scanFile promises of a batch;
\* "cleanup": in cleanupMemory; "returned"; "rejected": returned by the
\* re-entrancy guard; "threw"), tasks are the scanFile calls of the batch,
\* settled those of the batches before it.
IdleCall ==
  [pc |-> "idle", kind |-> "none", targets |-> << >>, i |-> 0, tasks |-> << >>,
   settled |-> << >>, filePaths |-> << >>, statements |-> << >>, errors |-> << >>, scannedFiles |-> 0,
   result |-> EmptyResult, notified |-> FALSE]

\* A scanFile call: st tells where it is ("stat", "read", "done", "failed"),
\* stats is what fs.promises.stat answered, out the statements it returned,
\* error the message it threw, hit whether it returned the cached list, seen
\* the content of the file when it returned.
NewTask(p) ==
  [path |-> p, st |-> "stat", stats |-> NoStats, out |-> << >>, error |-> "",
   hit |-> FALSE, seen |-> Missing]

\* the scanFile calls of the batch that starts at offset i, each at its stat
newTasks(targets, i) ==
  [k \in 1..Len(slice(targets, i, i + batchSize)) |->
     NewTask(slice(targets, i, i + batchSize)[k])]

Settled(task) == task.st \in {"done", "failed"}

\* filePaths.filter(.php).filter(not excluded)
filterTargets(filePaths) ==
  SelectSeq(filePaths, LAMBDA p : endsWithPhp(p) /\ ~isExcluded(p))

\* the ScanResult built at the end of scanWorkspace and scanFiles
buildResult(c, scanTime) ==
  [statements |-> sortStatements(c.statements),
   scannedFiles |-> c.scannedFiles,
   totalStatements |-> Len(c.statements),
   errors |-> c.errors,
   scanTime |-> scanTime]

\* a finally block that leaves the flag set
flagKept == TRUE

\* finally { this.scanInProgress = false; }
flagAfterScan == FALSE

\* the end of a scan: the result, the callback, return, the finally block
finishScan(s, c) ==
  /\ \E scanTime \in ScanTimes :
       call' = [call EXCEPT ![s] =
                  [c EXCEPT !.pc = "returned", !.tasks = << >>,
                            !.result = buildResult(c, scanTime),
                            !.notified = onScanComplete]]
  /\ scanInProgress' = flagAfterScan

\* the loop head `for (i ...; i < length; i += batchSize)` with the scan at c
enterBatch(s, c) ==
  IF c.i < Len(c.targets)
  THEN /\ call' = [call EXCEPT ![s] =
                     [c EXCEPT !.pc = "scanning", !.tasks = newTasks(c.targets, c.i)]]
       /\ scanInProgress' = TRUE
  ELSE finishScan(s, c)

\* the re-entrancy guard of scanWorkspace and scanFiles: the literal returned
rejectedByGuard(s, kind) ==
  /\ call' = [call EXCEPT ![s] =
                [IdleCall EXCEPT !.pc = "rejected", !.kind = kind,
                                 !.result = [statements |-> << >>, scannedFiles |-> 0,
                                             totalStatements |-> 0, errors |-> << >>,
                                             scanTime |-> 0]]]
  /\ UNCHANGED scanInProgress

\* a scanner whose guard never rejects a call
guardOff == FALSE

\* if (this.scanInProgress)
scanIsRejected == scanInProgress

\* scanFiles(filePaths) up to its first await
scanFilesBegin(s, filePaths) ==
  IF scanIsRejected
  THEN rejectedByGuard(s, "files")
  ELSE enterBatch(s, [IdleCall EXCEPT !.kind = "files", !.filePaths = filePaths,
                                      !.targets = filterTargets(filePaths)])

\* scanWorkspace() up to its first await (in collectFiles); without a
\* workspace folder it throws inside the try block
scanWorkspaceBegin(s, folders) ==
  IF scanIsRejected
  THEN rejectedByGuard(s, "workspace")
  ELSE IF ~folders
  THEN /\ call' = [call EXCEPT ![s] =
                     [IdleCall EXCEPT !.pc = "threw", !.kind = "workspace"]]
       /\ scanInProgress' = flagAfterScan
  ELSE /\ call' = [call EXCEPT ![s] =
                     [IdleCall EXCEPT !.pc = "collecting", !.kind = "workspace"]]
       /\ scanInProgress' = TRUE

\* the orders in which the paths of a set can be listed
Orderings(S) ==
  {q \in [1..Cardinality(S) -> S] : \A a, b \in 1..Cardinality(S) : a # b => q[a] # q[b]}

\* the directories collectFiles reaches from the workspace folder: the folder
\* itself and, when readdir lists the folder, the directories in it that no
\* rule excludes
Reached == IF 0 \in unlistable THEN {0} ELSE {d \in Directories : ~isExcluded(d)}

\* the files collectFiles finds: the existing .php entries of the directories
\* that readdir lists, without those a rule excludes
Collectable ==
  {p \in AllPaths : /\ dirOf(p) \in Reached \ unlistable
                    /\ entryEndsWithPhp(p)
                    /\ ~isExcluded(p)
                    /\ fs[p].content # Missing}

\* the catch of collectFiles: this.scanErrors.push({ filePath: dirPath, ... })
\* for each directory that readdir fails on, the deepest first
RECURSIVE pushFailed(_, _)
pushFailed(errors, failed) ==
  IF failed = {} THEN errors
  ELSE pushFailed(Append(errors, [filePath |-> Max(failed), error |-> "readdir"]),
                  failed \ {Max(failed)})

\* scanWorkspace: collectFiles has listed the files, in the order of readdir
filesCollected(s) ==
  /\ call[s].pc = "collecting"
  /\ \E targets \in Orderings(Collectable) :
       enterBatch(s, [call[s] EXCEPT !.targets = targets])
  /\ scanErrors' = pushFailed(scanErrors, Reached \cap unlistable)
  /\ UNCHANGED <<fs, excluded, onScanComplete, fileCache, scanResults, unlistable>>
  /\ UNCHANGED <<guardVars, lex>>

\* the same on a scanner whose callback leaves the provider alone
WorkspaceCollected(s) ==
  /\ filesCollected(s)
  /\ UNCHANGED <<clearVars, sideVars>>

\* a catch that drops the failure
errorsUnrecorded(errors, fp, error) == errors

\* errors.push({ filePath: fp, error: ... }) in the catch of scanFiles
recordError(errors, fp, error) == Append(errors, [filePath |-> fp, error |-> error])

\* A scanFile call of the batch fails.  scanFiles catches the failure and
\* records it; scanWorkspace does not: its Promise.all rejects, the call throws
\* and its finally block clears the flag, while the other scanFile calls of the
\* batch go on.
taskFails(s, k, error) ==
  IF call[s].kind = "files"
  THEN /\ call' = [call EXCEPT ![s].tasks[k].st = "failed",
                               ![s].tasks[k].error = error,
                               ![s].errors =
                                  recordError(call[s].errors, call[s].tasks[k].path, error)]
       /\ UNCHANGED scanInProgress
  ELSE IF call[s].pc = "scanning"
  THEN /\ call' = [call EXCEPT ![s].tasks[k].st = "failed",
                               ![s].tasks[k].error = error,
                               ![s].pc = "threw"]
       /\ scanInProgress' = flagAfterScan
  ELSE /\ call' = [call EXCEPT ![s].tasks[k].st = "failed",
                               ![s].tasks[k].error = error]
       /\ UNCHANGED scanInProgress

\* stats.size > this.maxFileSize
fileTooLarge(stats) == stats.size > maxFileSize

\* scanFile: fs.promises.stat has answered; the size gate and the cache check
TaskStat(s, k) ==
  /\ call[s].pc \in {"scanning", "threw"}
  /\ k \in 1..Len(call[s].tasks)
  /\ call[s].tasks[k].st = "stat"
  /\ IF fs[call[s].tasks[k].path].content = Missing
     THEN taskFails(s, k, "ReadError")
     ELSE IF fileTooLarge(fs[call[s].tasks[k].path])
     THEN taskFails(s, k, "FileTooLarge")
     ELSE IF cacheHit(fileCache[call[s].tasks[k].path],
                      getFileHash(fs[call[s].tasks[k].path]))
     THEN /\ call' = [call EXCEPT ![s].tasks[k].st = "done",
                                  ![s].tasks[k].out =
                                     cachedStatements(call[s].tasks[k].path),
                                  ![s].tasks[k].hit = TRUE,
                                  ![s].tasks[k].seen =
                                     fs[call[s].tasks[k].path].content]
          /\ UNCHANGED scanInProgress
     ELSE /\ call' = [call EXCEPT ![s].tasks[k].st = "read",
                                  ![s].tasks[k].stats =
                                     [size |-> fs[call[s].tasks[k].path].size,
                                      mtime |-> fs[call[s].tasks[k].path].mtime]]
          /\ UNCHANGED scanInProgress
  /\ UNCHANGED <<fs, excluded, onScanComplete, fileCache, scanResults>>
  /\ UNCHANGED <<guardVars, clearVars, lex, dirVars, sideVars>>

\* the cache entry and the statements scanFile stores at its end
cacheUpdate(p, stats, statements) ==
  /\ fileCache' = [fileCache EXCEPT ![p] =
                     [has |-> TRUE, mtime |-> stats.mtime, size |-> stats.size,
                      hash |-> getFileHash(stats)]]
  /\ scanResults' = [scanResults EXCEPT ![p] = [has |-> TRUE, statements |-> statements]]

\* the end of scanFile with the statements found in the content read
taskScanned(s, k, p, content, statements) ==
  /\ call' = [call EXCEPT ![s].tasks[k].st = "done",
                          ![s].tasks[k].out = statements,
                          ![s].tasks[k].seen = content]
  /\ cacheUpdate(p, call[s].tasks[k].stats, statements)
  /\ UNCHANGED scanInProgress

\* scanFile: fs.promises.readFile has answered; the content is scanned and the
\* cache updated
TaskRead(s, k) ==
  /\ call[s].pc \in {"scanning", "threw"}
  /\ k \in 1..Len(call[s].tasks)
  /\ call[s].tasks[k].st = "read"
  /\ IF fs[call[s].tasks[k].path].content = Missing
     THEN /\ taskFails(s, k, "ReadError")
          /\ UNCHANGED <<fileCache, scanResults>>
     ELSE taskScanned(s, k, call[s].tasks[k].path, fs[call[s].tasks[k].path].content,
                      scanContent(call[s].tasks[k].path,
                                  fs[call[s].tasks[k].path].content))
  /\ UNCHANGED <<fs, excluded, onScanComplete>>
  /\ UNCHANGED <<guardVars, clearVars, lex, dirVars, sideVars>>

RECURSIVE concatOuts(_, _)
concatOuts(tasks, k) ==
  IF k > Len(tasks) THEN << >> ELSE tasks[k].out \o concatOuts(tasks, k + 1)

\* a merge that counts only the scanFile calls that succeeded
mergeSucceeded(c) ==
  [c EXCEPT !.statements = c.statements \o concatOuts(c.tasks, 1),
            !.scannedFiles = c.scannedFiles +
                               Cardinality({k \in 1..Len(c.tasks) : c.tasks[k].st = "done"}),
            !.settled = c.settled \o c.tasks,
            !.tasks = << >>]

\* every scanFile of the batch has answered: the statements are merged in the
\* order of the batch
mergeBatch(c) ==
  [c EXCEPT !.statements = c.statements \o concatOuts(c.tasks, 1),
            !.scannedFiles = c.scannedFiles + Len(c.tasks),
            !.settled = c.settled \o c.tasks,
            !.tasks = << >>]

\* the batch is merged, then `if (i % 200 === 0) await this.cleanupMemory()`
afterBatch(s, c) ==
  IF c.i % 200 = 0
  THEN /\ call' = [call EXCEPT ![s] = [c EXCEPT !.pc = "cleanup"]]
       /\ UNCHANGED scanInProgress
  ELSE enterBatch(s, [c EXCEPT !.i = c.i + batchSize])

\* Promise.all of the batch has resolved
batchSettled(s) ==
  /\ call[s].pc = "scanning"
  /\ \A k \in 1..Len(call[s].tasks) : Settled(call[s].tasks[k])
  /\ afterBatch(s, mergeBatch(call[s]))
  /\ UNCHANGED <<fs, excluded, onScanComplete, fileCache, scanResults>>
  /\ UNCHANGED <<guardVars, lex, dirVars>>

BatchDone(s) ==
  /\ batchSettled(s)
  /\ UNCHANGED <<clearVars, sideVars>>

\* cleanupMemory has waited its 10 ms: the loop goes on with the next batch
memoryCleaned(s) ==
  /\ call[s].pc = "cleanup"
  /\ enterBatch(s, [call[s] EXCEPT !.i = call[s].i + batchSize])
  /\ UNCHANGED <<fs, excluded, onScanComplete, fileCache, scanResults>>
  /\ UNCHANGED <<guardVars, lex, dirVars>>

CleanupDone(s) ==
  /\ memoryCleaned(s)
  /\ UNCHANGED <<clearVars, sideVars>>

\* the number of modifications the files have had
modCount == fs[1].mtime + fs[2].mtime + fs[3].mtime + fs[4].mtime

\* the environment writes, resizes, removes or creates a file; the
\* modification time of a file grows with each modification
ModifyFile(p) ==
  /\ modCount < MaxMods
  /\ \E content \in Contents \cup {Missing}, size \in FileSizes :
       /\ content = Missing => size = maxFileSize
       /\ fs' = [fs EXCEPT ![p] = [size |-> size, mtime |-> fs[p].mtime + 1,
                                   content |-> content]]
  /\ UNCHANGED <<excluded, onScanComplete, scanInProgress, fileCache, scanResults, call>>
  /\ UNCHANGED <<guardVars, clearVars, lex, dirVars, sideVars>>

\* ------------------------------------------------------------------------
\* Specification Spec: one scanner instance, its callers and the file system
\* ------------------------------------------------------------------------

\* the scanFiles arguments the callers pass: lists of distinct paths
ScanInputs == {<<2, 1>>, <<1, 4>>, <<4, 3>>, <<5, 2>>}

\* the files the environment modifies
ModifiablePaths == {1, 2}

\* the entries DebugScanner.scanErrors grows to
MaxScanErrors == 1

\* Callers are interchangeable: the second one is the one whose call overlaps
\* a call of the first.
MayCall(s) ==
  /\ call[s].pc = "idle"
  /\ s = 2 => call[1].pc # "idle"

\* a caller calls scanFiles
CallScanFiles(s, filePaths) ==
  /\ MayCall(s)
  /\ scanFilesBegin(s, filePaths)
  /\ UNCHANGED <<fs, excluded, onScanComplete, fileCache, scanResults>>
  /\ UNCHANGED <<guardVars, clearVars, lex, dirVars, sideVars>>

\* a caller calls scanWorkspace
CallScanWorkspace(s, folders) ==
  /\ MayCall(s)
  /\ Len(scanErrors) < MaxScanErrors
  /\ scanWorkspaceBegin(s, folders)
  /\ UNCHANGED <<fs, excluded, onScanComplete, fileCache, scanResults>>
  /\ UNCHANGED <<guardVars, clearVars, lex, dirVars, sideVars>>

\* the caller has taken the outcome of its call; every scanFile the call
\* started has answered
CallOver(s) ==
  /\ call[s].pc \in {"returned", "rejected", "threw"}
  /\ \A k \in 1..Len(call[s].tasks) : Settled(call[s].tasks[k])
  /\ call' = [call EXCEPT ![s] = IdleCall]
  /\ UNCHANGED <<fs, excluded, onScanComplete, scanInProgress, fileCache, scanResults>>
  /\ UNCHANGED <<guardVars, clearVars, lex, dirVars, sideVars>>

File0(content) == [size |-> maxFileSize, mtime |-> 0, content |-> content]

InitFiles ==
  /\ fs = (1 :> File0(ContentTwo)) @@ (2 :> File0(ContentOne)) @@
          (3 :> File0(ContentTwo)) @@ (4 :> File0(ContentNone)) @@
          (5 :> File0(ContentOne))
  /\ excluded = matchedBy(3)

InitScanner ==
  /\ scanInProgress = FALSE
  /\ fileCache = [p \in AllPaths |-> NoCache]
  /\ scanResults = [p \in AllPaths |-> NoStatements]
  /\ call = [s \in Callers |-> IdleCall]

Repos == {1, 2}

IdleHandler == [hpc |-> "idle", repo |-> 0, newly |-> << >>, unstaged |-> FALSE,
                restaged |-> FALSE]

InitGuardIdle ==
  /\ index = [r \in Repos |-> {}]
  /\ prevStaged = [r \in Repos |-> {}]
  /\ handler = [s \in Callers |-> IdleHandler]
  /\ mode = "strict"

InitClearIdle ==
  /\ doc = << >>
  /\ lastScanResult = << >>
  /\ bookmarks = {}

\* the comment and string state of a PHP lexer between two lines
RefState0 == [mode |-> "code", delim |-> ""]

\* lex: the line of the file that scanFile is at: its text (typed in pieces),
\* its number, the state the loop carries into and out of it, the statements
\* pushed for it, the sanitized text and the segments it was cut into, and the
\* state of a PHP lexer before and after it
LexIdle ==
  [line |-> << >>, pieces |-> 0, lineNumber |-> 1, scanned |-> FALSE,
   before |-> LineState0, after |-> LineState0, emits |-> << >>,
   sanitized |-> << >>, segments |-> << >>,
   refBefore |-> RefState0, refAfter |-> RefState0]

\* every directory can be listed, and none has failed
InitDirsIdle ==
  /\ unlistable = {}
  /\ scanErrors = << >>

\* watch: the file-change events the watcher has delivered, the timers that
\* handleFileChange has set and that have not fired yet (in the order they
\* were set), the timers that have fired, the scanWorkspace calls of the
\* timers that the guard let run, whether an event came after the delay
\* of the first one had passed, and the events delivered since the last
\* scanWorkspace run of a timer started
WatchIdle ==
  [events |-> 0, timers |-> << >>, fired |-> 0, runs |-> 0, late |-> FALSE,
   unscanned |-> 0]

\* expr: the text (typed in pieces) and, once the validator has run, what
\* isPhpVariable and isPhpFunctionOrStaticCall answered for it
ExprIdle == [text |-> << >>, pieces |-> 0, checked |-> FALSE,
             variable |-> FALSE, callable |-> FALSE]

\* dump: the document of the active editor (typed line by line) and, once
\* dumpVariable has run, its selection, the options of the editor, the
\* document as it was, the message shown (outcome; line is the line number
\* the message names, 0 for none), the insertion plan and the text inserted
DumpIdle ==
  [doc |-> << >>, ran |-> FALSE, before |-> << >>,
   selection |-> [line |-> 0, start |-> 0, end |-> 0],
   options |-> [insertSpaces |-> TRUE, tabSize |-> 4],
   outcome |-> "", line |-> 0,
   plan |-> [threw |-> TRUE, line |-> 0, character |-> 0, indent |-> << >>,
             closingBraceCase |-> FALSE],
   insertText |-> << >>]

\* view: the fields updateQueue, updateTimer and isUpdating of the view,
\* whether the timer of scheduleUpdate is pending, the batch that
\* processUpdateQueue has taken from the queue (updates) and the position of
\* its loop in it, what each update queued so far does when it is called
\* (kinds; an update is named by its place in it), the updates that have
\* begun to run (in that order), those that are running, and whether a
\* finally block has found updates left in the queue
ViewIdle ==
  [updateQueue |-> << >>, updateTimer |-> FALSE, isUpdating |-> FALSE,
   timerPending |-> FALSE, updates |-> << >>, pos |-> 0, kinds |-> << >>,
   started |-> << >>, running |-> {}, resumed |-> FALSE]

\* tree: the view mode, the nodes of the tree (a node is named by its place
\* in nodes; its children are a list of nodes), treeData, resultCache in the
\* order of insertion, Date.now(), and the getChildren calls made: their
\* number, the node the last one was asked for (0 for none) and its answer
TreeIdle ==
  [viewMode |-> "nested", nodes |-> << >>, treeData |-> << >>, resultCache |-> << >>,
   now |-> 0, queries |-> 0, asked |-> 0, answer |-> << >>]

InitSideIdle ==
  /\ watch = WatchIdle
  /\ expr = ExprIdle
  /\ dump = DumpIdle
  /\ view = ViewIdle
  /\ tree = TreeIdle

Init ==
  /\ InitFiles
  /\ onScanComplete = TRUE
  /\ InitScanner
  /\ InitGuardIdle
  /\ InitClearIdle
  /\ lex = LexIdle
  /\ InitDirsIdle
  /\ InitSideIdle

Next ==
  \/ \E s \in Callers : \E filePaths \in ScanInputs : CallScanFiles(s, filePaths)
  \/ \E s \in Callers : \E folders \in BOOLEAN : CallScanWorkspace(s, folders)
  \/ \E s \in Callers : CallOver(s)
  \/ \E p \in ModifiablePaths : ModifyFile(p)
  \/ \E s \in Callers : WorkspaceCollected(s)
  \/ \E s \in Callers : \E k \in 1..2 : TaskStat(s, k)
  \/ \E s \in Callers : \E k \in 1..2 : TaskRead(s, k)
  \/ \E s \in Callers : BatchDone(s)
  \/ \E s \in Callers : CleanupDone(s)

Spec == Init /\ [][Next]_vars

\* ------------------------------------------------------------------------
\* Specification SpecDirs: the same, with directories that readdir cannot list
\* ------------------------------------------------------------------------

InitDirs ==
  /\ InitFiles
  /\ onScanComplete = TRUE
  /\ InitScanner
  /\ InitGuardIdle
  /\ InitClearIdle
  /\ lex = LexIdle
  /\ unlistable \in SUBSET Directories
  /\ scanErrors = << >>
  /\ InitSideIdle

\* ------------------------------------------------------------------------
\* Specification SpecFair: Spec with the promises of a scan settling: readdir,
\* stat and readFile answer, the timer of cleanupMemory fires, and the
\* continuation of Promise.all runs
\* ------------------------------------------------------------------------

\* the calls and the modification of SpecFair and SpecDirs: scanFiles with
\* one list of two files, scanWorkspace, and the first file modified
NextFair ==
  \/ \E s \in Callers : CallScanFiles(s, <<2, 1>>)
  \/ \E s \in Callers : \E folders \in BOOLEAN : CallScanWorkspace(s, folders)
  \/ \E s \in Callers : CallOver(s)
  \/ ModifyFile(1)
  \/ \E s \in Callers : WorkspaceCollected(s)
  \/ \E s \in Callers : \E k \in 1..2 : TaskStat(s, k)
  \/ \E s \in Callers : \E k \in 1..2 : TaskRead(s, k)
  \/ \E s \in Callers : BatchDone(s)
  \/ \E s \in Callers : CleanupDone(s)

\* a step of the event loop for a pending promise of a scan, other than the
\* answer of readFile
Settles ==
  \/ \E s \in Callers : WorkspaceCollected(s)
  \/ \E s \in Callers : \E k \in 1..2 : TaskStat(s, k)
  \/ \E s \in Callers : BatchDone(s)
  \/ \E s \in Callers : CleanupDone(s)

\* fs.promises.readFile of task k of call s has not answered yet: the guard of
\* TaskRead, which always changes call
readPending(s, k) ==
  /\ call[s].pc \in {"scanning", "threw"}
  /\ k \in 1..Len(call[s].tasks)
  /\ call[s].tasks[k].st = "read"

\* weak fairness of the answers of readFile, with the enabling condition of
\* TaskRead written as its guard
ReadsSettle ==
  \/ []<>(~ \E s \in Callers : \E k \in 1..2 : readPending(s, k))
  \/ []<><<\E s \in Callers : \E k \in 1..2 : TaskRead(s, k)>>_vars

\* the event loop settles every pending promise: node runs each callback that
\* is ready
SpecFair == Init /\ [][NextFair]_vars /\ WF_vars(Settles) /\ ReadsSettle

\* the same calls in a workspace with directories that readdir cannot list
SpecDirs == InitDirs /\ [][NextFair]_vars

\* ------------------------------------------------------------------------
\* Properties of the scanner (specification Spec)
\* ------------------------------------------------------------------------

InFlight(s) == call[s].pc \in {"collecting", "scanning", "cleanup"}

\* the scanFile calls a call has made
tasksOf(c) == c.settled \o c.tasks

\* C1: while a scan is in flight on the instance (scanInProgress is true), a
\* further scanWorkspace or scanFiles call returns at once the empty result
\* (no statement, scannedFiles 0, totalStatements 0, no error, scanTime 0),
\* starts no scanFile, does not invoke onScanComplete, leaves the flag set and
\* the caches alone; at most one call is in flight at any time, and the flag
\* is set while one is.
C1_ReentrantCallRejected ==
  /\ [](/\ Cardinality({s \in Callers : InFlight(s)}) <= 1
        /\ \A s \in Callers : InFlight(s) => scanInProgress
        /\ \A s \in Callers :
             call[s].pc = "rejected" =>
               /\ call[s].result = EmptyResult
               /\ tasksOf(call[s]) = << >>
               /\ ~call[s].notified)
  /\ [][\A s \in Callers :
          (scanInProgress /\ call[s].pc = "idle" /\ call'[s].pc # "idle") =>
            /\ call'[s].pc = "rejected"
            /\ scanInProgress'
            /\ UNCHANGED <<fileCache, scanResults>>
            /\ \A t \in Callers \ {s} : call'[t] = call[t]]_vars

\* C1 witness: a call was rejected while the call of the other caller is in flight
C1_Witness ==
  \E s, t \in Callers :
    /\ call[s].pc = "rejected"
    /\ InFlight(t)
    /\ call[t].tasks # << >>

\* C2: a scanWorkspace call one of whose scanFile calls failed still returns
\* a result, which records the failure in errors and holds the statements of
\* the other files.
C2_WorkspaceSurvivesFailure ==
  \A s \in Callers :
    (/\ call[s].kind = "workspace"
     /\ \E k \in 1..Len(tasksOf(call[s])) : tasksOf(call[s])[k].st = "failed") =>
      /\ call[s].pc # "threw"
      /\ call[s].pc = "returned" =>
           \A k \in 1..Len(tasksOf(call[s])) :
             LET task == tasksOf(call[s])[k]
             IN IF task.st = "failed"
                THEN \E e \in 1..Len(call[s].result.errors) :
                       call[s].result.errors[e].filePath = task.path
                ELSE \A j \in 1..Len(task.out) :
                       \E i \in 1..Len(call[s].result.statements) :
                         call[s].result.statements[i] = task.out[j]

\* C21: a scan that has started ends, by returning or by throwing, and the
\* flag is clear when it does; the flag is set only while a scan is running,
\* so a scan that has ended never makes the guard reject a later call; and a
\* call that the guard rejects leaves the flag as it is.
C21_ScanEndsAndClearsFlag ==
  /\ \A s \in Callers :
       (call[s].pc \in {"collecting", "scanning", "cleanup"})
         ~> (call[s].pc \in {"returned", "threw"})
  /\ [][\A s \in Callers :
          (call[s].pc \notin {"returned", "threw"} /\ call'[s].pc \in {"returned", "threw"})
            => ~scanInProgress']_vars
  /\ [](scanInProgress => \E s \in Callers : InFlight(s))
  /\ [][\A s \in Callers :
          (call[s].pc # "rejected" /\ call'[s].pc = "rejected")
            => scanInProgress' = scanInProgress]_vars

\* C21 witness: a scanWorkspace call has thrown on a failing file, and a call
\* made after it runs
C21_Witness ==
  \E s, t \in Callers :
    /\ call[s].pc = "threw"
    /\ call[s].settled \o call[s].tasks # << >>
    /\ call[t].pc = "scanning"

\* the statements of a result that are in file p
statementsIn(statements, p) == SelectSeq(statements, LAMBDA st : st.filePath = p)

\* C3: in the result of scanFiles, a file whose size exceeds maxFileSize has
\* no statement and exactly one entry in errors, and every file that was
\* scanned has the statements of its own content, in their order.
C3_OversizedFileIsolated ==
  \A s \in Callers :
    (call[s].kind = "files" /\ call[s].pc = "returned") =>
      \A k \in 1..Len(call[s].settled) :
        LET task == call[s].settled[k]
            result == call[s].result
        IN /\ (task.st = "failed" /\ task.error = "FileTooLarge") =>
                /\ statementsIn(result.statements, task.path) = << >>
                /\ Cardinality({e \in 1..Len(result.errors) :
                                  result.errors[e].filePath = task.path}) = 1
           /\ task.st = "done" =>
                statementsIn(result.statements, task.path) =
                  scanContent(task.path, task.seen)

\* C3 witness: scanFiles returned for an oversized file and a file that has
\* statements
C3_Witness ==
  \E s \in Callers :
    /\ call[s].kind = "files"
    /\ call[s].pc = "returned"
    /\ \E k \in 1..Len(call[s].settled) : call[s].settled[k].error = "FileTooLarge"
    /\ call[s].result.totalStatements > 0

\* the file p has the size and the modification time it had when the scanFile
\* that made its cache entry looked at it
unchangedSinceScan(p) ==
  /\ fileCache[p].has
  /\ fs[p].content # Missing
  /\ fs[p].size = fileCache[p].size
  /\ fs[p].mtime = fileCache[p].mtime

\* C7: a scanFile that finds the size and the modification time of its file
\* as they were at the last successful scanFile of it returns, without a read
\* of the content, the statement list that scan stored, which is the list a
\* scan of the file's content yields.
C7_UnchangedFileFromCache ==
  [][\A s \in Callers : \A k \in 1..Len(call[s].tasks) :
       (/\ call[s].tasks[k].st = "stat"
        /\ Len(call'[s].tasks) >= k
        /\ call'[s].tasks[k].st # "stat"
        /\ unchangedSinceScan(call[s].tasks[k].path)) =>
         /\ call'[s].tasks[k].st = "done"
         /\ call'[s].tasks[k].out = scanResults[call[s].tasks[k].path].statements
         /\ call'[s].tasks[k].out =
              scanContent(call[s].tasks[k].path, fs[call[s].tasks[k].path].content)
         /\ UNCHANGED <<fileCache, scanResults>>]_vars

\* C7 witness: a scanFile has returned the cached list of a file that has
\* statements, after the environment modified some file
C7_Witness ==
  \E s \in Callers : \E k \in 1..Len(call[s].tasks) :
    /\ call[s].tasks[k].st = "done"
    /\ call[s].tasks[k].hit
    /\ call[s].tasks[k].out # << >>
    /\ modCount > 0

isSorted(statements) ==
  \A i, j \in 1..Len(statements) :
    i < j =>
      \/ statements[i].filePath < statements[j].filePath
      \/ /\ statements[i].filePath = statements[j].filePath
         /\ statements[i].lineNumber <= statements[j].lineNumber

\* C8: the statements of every result returned by scanWorkspace or scanFiles
\* are ordered by filePath and, within a file, by non-decreasing lineNumber.
C8_ResultSorted ==
  \A s \in Callers :
    call[s].pc = "returned" => isSorted(call[s].result.statements)

\* C8 witness: a result with statements of two files, whose scans were
\* merged in another order than the order of the result
C8_Witness ==
  \E s \in Callers :
    /\ call[s].pc = "returned"
    /\ Len(call[s].result.statements) >= 3
    /\ call[s].statements # call[s].result.statements
    /\ \E i \in 1..Len(call[s].result.statements) :
         call[s].result.statements[i].filePath # call[s].result.statements[1].filePath

\* ------------------------------------------------------------------------
\* Specification SpecLex: the loop of scanFile over the lines of one file
\* ------------------------------------------------------------------------

\* the pieces of PHP text a line is made of
LexPieces ==
  {<<"d", "d", "(", "$", "x", ")", ";", " ">>,
   <<"e", "x", "i", "t", ";", " ">>,
   <<"E", "X", "I", "T", ";">>,
   <<"v", "a", "r", "_", "d", "u", "m", "p", "(", "$", "a", "d", "d", ")", ";", " ">>,
   <<"/", "*", " ", "a", " ", "*", "/", " ">>,
   <<"/", "*", " ", "b", ";", " ", "d", "d", "(", "$", "y", ")", ";", " ", "*", "/">>,
   <<"/", "*", " ">>,
   <<"*", "/", " ">>,
   <<"e", "c", "h", "o", " ", "\"", "d", "d", "\"", ";", " ">>,
   <<"/", "/", " ">>,
   <<"\"">>,
   <<"e", "r", "r", "o", "r", "_", "l", "o", "g", "(", "$", "m", ")", ";", " ">>,
   <<"D", "D", "(", "$", "x", ")", ";", " ">>,
   <<"f", "o", "r", "(", ";", ";", ")", " ">>,
   <<"$", "a", ";", " ">>,
   <<"d", "i", "e", "(", "$", "e", "x", "i", "t", ")", ";", " ">>,
   <<"\\">>,
   <<"'">>,
   <<"\"", "\\">>,
   <<"d", "d", "(", "$", "z", ")">>}

\* the number of pieces of a line
MaxPieces == 3

\* the number of lines of the file
MaxLexLines == 2

\* What a PHP lexer takes for code in a line: code is the set of offsets of
\* the characters outside comments and string literals, state the state at
\* the end of the line.  A block comment runs to the next "*/", a string to
\* its unescaped closing quote, both over line ends; "//" and "#" comment out
\* the rest of the line.
RECURSIVE refFrom(_, _, _, _, _)
refFrom(line, j, r, esc, code) ==
  IF j > Len(line) THEN [code |-> code, state |-> r]
  ELSE IF r.mode = "block"
  THEN IF StartsWithAt(line, j, CommentClose)
       THEN refFrom(line, j + 2, RefState0, FALSE, code)
       ELSE refFrom(line, j + 1, r, FALSE, code)
  ELSE IF r.mode = "string"
  THEN IF line[j] = "\\" THEN refFrom(line, j + 1, r, ~esc, code)
       ELSE IF line[j] = r.delim /\ ~esc THEN refFrom(line, j + 1, RefState0, FALSE, code)
       ELSE refFrom(line, j + 1, r, FALSE, code)
  ELSE IF line[j] \in {"\"", "'"}
  THEN refFrom(line, j + 1, [mode |-> "string", delim |-> line[j]], FALSE, code)
  ELSE IF StartsWithAt(line, j, <<"/", "/">>) \/ line[j] = "#"
  THEN [code |-> code, state |-> r]
  ELSE IF StartsWithAt(line, j, CommentOpen)
  THEN refFrom(line, j + 2, [mode |-> "block", delim |-> ""], FALSE, code)
  ELSE refFrom(line, j + 1, r, FALSE, code \cup {j - 1})

refLine(line, r) == refFrom(line, 1, r, FALSE, {})

\* the editor adds a piece of text to the line
LexType(piece) ==
  /\ ~lex.scanned
  /\ lex.pieces < MaxPieces
  /\ lex' = [lex EXCEPT !.line = lex.line \o piece, !.pieces = lex.pieces + 1]
  /\ UNCHANGED <<scannerVars, envVars, guardVars, clearVars, dirVars, sideVars>>

lexScanned(r, ref) ==
  [lex EXCEPT !.scanned = TRUE, !.emits = r.emits, !.after = r.state,
              !.sanitized = r.sanitized, !.segments = r.segments,
              !.refAfter = ref.state]

\* one iteration of the loop of scanFile over the lines
LexScanLine ==
  /\ ~lex.scanned
  /\ lex' = lexScanned(scanLine(1, lex.lineNumber, lex.line, lex.before),
                       refLine(lex.line, lex.refBefore))
  /\ UNCHANGED <<scannerVars, envVars, guardVars, clearVars, dirVars, sideVars>>

\* the loop goes on to the next line
LexNextLine ==
  /\ lex.scanned
  /\ lex.lineNumber < MaxLexLines
  /\ lex' = [LexIdle EXCEPT !.lineNumber = lex.lineNumber + 1,
                            !.before = lex.after, !.refBefore = lex.refAfter]
  /\ UNCHANGED <<scannerVars, envVars, guardVars, clearVars, dirVars, sideVars>>

NextLex ==
  \/ \E piece \in LexPieces : LexType(piece)
  \/ LexScanLine
  \/ LexNextLine

SpecLex == Init /\ [][NextLex]_vars

\* ------------------------------------------------------------------------
\* Properties of the line scanner (specification SpecLex)
\* ------------------------------------------------------------------------

\* C6: every statement pushed for a line comes from text in code position: the
\* first character of its segment is outside every string literal, line
\* comment and block comment of the file.
C6_NoStatementFromCommentOrString ==
  lex.scanned =>
    \A i \in 1..Len(lex.emits) :
      lex.emits[i].tokAt \in refLine(lex.line, lex.refBefore).code

\* C9: the statement pushed for a debug segment merged with the exit/die
\* segment after it has severity error and, as its content, the text of the
\* line from the first character of the debug segment to the semicolon of the
\* exit/die segment; no other statement is pushed for the two segments.
C9_MergedWithExit ==
  lex.scanned =>
    \A i \in 1..Len(lex.emits) :
      lex.emits[i].merged =>
        /\ lex.emits[i].st.severity = "error"
        /\ lex.emits[i].st.content =
             trim(slice(lex.line, lex.emits[i].tokAt, lex.emits[i].endAt + 1))
        /\ \A j \in 1..Len(lex.emits) :
             j # i => lex.emits[j].seg \notin {lex.emits[i].seg, lex.emits[i].seg + 1}

\* the severity the type of a statement stands for
severityOfType(type) ==
  IF type \in {"die", "exit", "dd"} THEN "error"
  ELSE IF type \in {"error_log", "trigger_error", "user_error"} THEN "warning"
  ELSE "info"

\* C10: the severity of a statement that is not merged with an exit/die
\* segment is the severity of its type: error for die, exit and dd, warning
\* for error_log, trigger_error and user_error, info for the other types.
C10_SeverityFromType ==
  lex.scanned =>
    \A i \in 1..Len(lex.emits) :
      ~lex.emits[i].merged =>
        lex.emits[i].st.severity = severityOfType(lex.emits[i].st.type)

\* C11: the column of every statement pushed for a line is the offset in the
\* raw line of the first character of its own debug token: it lies inside
\* the line, in code position, and the content is the text of the line from
\* there to the semicolon that ends the statement.
C11_ColumnAtOwnToken ==
  lex.scanned =>
    \A i \in 1..Len(lex.emits) :
      /\ lex.emits[i].st.column = lex.emits[i].tokAt
      /\ lex.emits[i].st.column \in 0..(Len(lex.line) - 1)
      /\ lex.emits[i].st.column \in refLine(lex.line, lex.refBefore).code
      /\ lex.emits[i].st.content =
           trim(slice(lex.line, lex.emits[i].st.column, lex.emits[i].endAt + 1))

\* the bracket depth of the text before its offset k: the "(", "[" and "{"
\* that are still open there
RECURSIVE depthFrom(_, _, _, _)
depthFrom(t, i, k, d) ==
  IF i >= k THEN d
  ELSE depthFrom(t, i + 1, k,
                 IF t[i + 1] \in {"(", "[", "{"} THEN d + 1
                 ELSE IF t[i + 1] \in {")", "]", "}"} /\ d > 0 THEN d - 1
                 ELSE d)

\* C29: the ";" that ends a segment of the sanitized line is at bracket depth
\* 0: no "(", "[" or "{" of the line is still open there.
C29_SegmentEndsAtDepthZero ==
  lex.scanned =>
    \A k \in 1..Len(lex.segments) :
      depthFrom(lex.sanitized, 0, lex.segments[k].endSan, 0) = 0

\* C30: every segment of the sanitized line that classifies as a debug type
\* is reported, on its own or as the exit that ends a merged statement,
\* wherever it stands on the line.
C30_DebugSegmentReported ==
  lex.scanned =>
    \A k \in 1..Len(segmentsOf(lex.sanitized)) :
      isDebugSegment(segmentsOf(lex.sanitized)[k].text) =>
        \E i \in 1..Len(lex.emits) :
          \/ lex.emits[i].seg = k
          \/ lex.emits[i].merged /\ lex.emits[i].seg + 1 = k

\* the leading token of a text: the run of word characters after its leading
\* whitespace, in lower case
leadingToken(text) ==
  LET t == toLowerCase(text)
      p == SkipSpaces(t, 1)
      ends == {j \in p..(Len(t) + 1) :
                 /\ \A k \in p..(j - 1) : IsWordChar(t[k])
                 /\ (j = Len(t) + 1 \/ ~IsWordChar(t[j]))}
  IN SubSeq(t, p, Min(ends) - 1)

\* the kind a token names, "none" when it is no debug token
kindOfToken(tok) ==
  IF \E type \in StatementTypes : tokenMap(type) = tok
  THEN CHOOSE type \in StatementTypes : tokenMap(type) = tok
  ELSE "none"

\* the texts the scanner classifies for a line: the sanitized line and its
\* segments
classifiedTexts ==
  {lex.sanitized} \cup
  {segmentsOf(lex.sanitized)[k].text : k \in 1..Len(segmentsOf(lex.sanitized))}

\* C31: the type matchTypeFromText gives a text is the kind its leading
\* token names, whatever follows the token: a text that begins with die is
\* die, one that begins with exit is exit, and a text whose leading token is
\* no debug token has no type.
C31_TypeFromLeadingToken ==
  lex.scanned =>
    \A txt \in classifiedTexts :
      LET kind == kindOfToken(leadingToken(txt))
          type == matchTypeFromText(txt)
      IN /\ kind \in {"die", "exit"} => type = kind
         /\ kind = "none" => type = "none"
         /\ type # "none" => type = kind

\* the offsets of the characters of a line that lie inside a string literal,
\* between its quotes, for a PHP lexer that enters the line in state r
RECURSIVE inStringFrom(_, _, _, _, _)
inStringFrom(line, j, r, esc, acc) ==
  IF j > Len(line) THEN acc
  ELSE IF r.mode = "block"
  THEN IF StartsWithAt(line, j, CommentClose)
       THEN inStringFrom(line, j + 2, RefState0, FALSE, acc)
       ELSE inStringFrom(line, j + 1, r, FALSE, acc)
  ELSE IF r.mode = "string"
  THEN IF line[j] = "\\" THEN inStringFrom(line, j + 1, r, ~esc, acc \cup {j - 1})
       ELSE IF line[j] = r.delim /\ ~esc THEN inStringFrom(line, j + 1, RefState0, FALSE, acc)
       ELSE inStringFrom(line, j + 1, r, FALSE, acc \cup {j - 1})
  ELSE IF line[j] \in {"\"", "'"}
  THEN inStringFrom(line, j + 1, [mode |-> "string", delim |-> line[j]], FALSE, acc)
  ELSE IF StartsWithAt(line, j, <<"/", "/">>) \/ line[j] = "#"
  THEN acc
  ELSE IF StartsWithAt(line, j, CommentOpen)
  THEN inStringFrom(line, j + 2, [mode |-> "block", delim |-> ""], FALSE, acc)
  ELSE inStringFrom(line, j + 1, r, FALSE, acc)

\* the offsets of the occurrences of a text in a line
occurrences(line, w) == {j \in 0..(Len(line) - 1) : StartsWithAt(line, j + 1, w)}

\* every comment opener of the scanned line stands inside a string literal,
\* and there is one
openerOnlyInString ==
  /\ lex.scanned
  /\ ~lex.before.inBlockComment
  /\ lex.refBefore.mode # "block"
  /\ occurrences(lex.line, CommentOpen) # {}
  /\ occurrences(lex.line, CommentOpen) \subseteq
       inStringFrom(lex.line, 1, lex.refBefore, FALSE, {})

\* C32: a comment opener inside a string literal does not open block-comment
\* mode: after a line whose only comment openers stand inside quoted strings
\* the scanner is outside block-comment mode, so the lines that follow are
\* scanned.
C32_OpenerInStringIgnored ==
  openerOnlyInString => ~lex.after.inBlockComment

\* segment k of the scanned line is merged with the segment after it: it is
\* a debug segment, the next one is a bare exit/die, and it was not itself
\* consumed by the segment before it
RECURSIVE mergesAt(_)
mergesAt(k) ==
  /\ k + 1 <= Len(lex.segments)
  /\ isDebugSegment(lex.segments[k].text)
  /\ isExitOnlySegment(lex.segments[k + 1].text)
  /\ ~(k > 1 /\ mergesAt(k - 1))

\* segment k was consumed by the merge of the segment before it
consumedAt(k) == k > 1 /\ mergesAt(k - 1)

\* the statements pushed for segment k of the scanned line
pushedFor(k) == {i \in 1..Len(lex.emits) : lex.emits[i].seg = k}

\* C33: merging looks exactly one segment ahead.  A debug segment is merged
\* only with a bare exit/die segment right after it; a debug segment followed
\* by another debug segment is pushed alone, also when an exit comes after
\* that one; a segment consumed by a merge is pushed neither alone nor as the
\* start of another merge, and the exit/die segment after it is pushed as a
\* statement of its own.
C33_MergeLooksOneAhead ==
  lex.scanned =>
    \A k \in 1..Len(lex.segments) :
      /\ consumedAt(k) => pushedFor(k) = {}
      /\ ~consumedAt(k) /\ ~isDebugSegment(lex.segments[k].text) => pushedFor(k) = {}
      /\ ~consumedAt(k) /\ isDebugSegment(lex.segments[k].text) =>
           /\ Cardinality(pushedFor(k)) = 1
           /\ \A i \in pushedFor(k) : lex.emits[i].merged = mergesAt(k)
      /\ \A i, j \in pushedFor(k) : i = j

\* a line "A; exit; exit;": the first exit is merged with A, the second one
\* is pushed as a statement of its own
secondExitAlone ==
  /\ lex.scanned
  /\ Len(lex.segments) = 3
  /\ Len(lex.emits) = 2
  /\ isExitOnlySegment(lex.segments[3].text)
  /\ isExitOnlySegment(lex.segments[2].text)
  /\ ~isExitOnlySegment(lex.segments[1].text)
  /\ lex.emits[1].merged /\ lex.emits[1].seg = 1
  /\ ~lex.emits[2].merged /\ lex.emits[2].seg = 3

\* a line "A; B; exit;": A is pushed alone and B merged with the exit, two
\* statements
C33_Witness ==
  /\ lex.scanned
  /\ Len(lex.segments) = 3
  /\ Len(lex.emits) = 2
  /\ isExitOnlySegment(lex.segments[3].text)
  /\ ~isExitOnlySegment(lex.segments[2].text)
  /\ ~lex.emits[1].merged /\ lex.emits[1].seg = 1
  /\ lex.emits[2].merged /\ lex.emits[2].seg = 2

\* the number of consecutive backslashes right before position j of a text,
\* counted back no further than position from
backslashesBefore(l, j, from) ==
  Max({n \in 0..(j - from) : \A k \in (j - n)..(j - 1) : l[k] = "\\"})

\* The strings of a text by the rules of the language: open is 0 outside a
\* string and the position of the first character of its content inside one.
\* A quote of the kind that opened the string closes it when an even number
\* of backslashes stands right before it; outside a string "//" and "#" end
\* the text.  code is the sequence of positions outside strings.
RECURSIVE stringsFrom(_, _, _, _, _)
stringsFrom(l, j, open, delim, code) ==
  IF j > Len(l) THEN [code |-> code, inString |-> open # 0, delim |-> delim]
  ELSE IF open # 0
  THEN IF l[j] = delim /\ backslashesBefore(l, j, open) % 2 = 0
       THEN stringsFrom(l, j + 1, 0, "", code)
       ELSE stringsFrom(l, j + 1, open, delim, code)
  ELSE IF l[j] \in {"\"", "'"}
  THEN stringsFrom(l, j + 1, j + 1, l[j], code)
  ELSE IF StartsWithAt(l, j, <<"/", "/">>) \/ l[j] = "#"
  THEN [code |-> code, inString |-> FALSE, delim |-> ""]
  ELSE stringsFrom(l, j + 1, 0, "", Append(code, j))

\* the text the sanitizer was given for the scanned line
sanitizerInput == blockStage(lex.line, lex.before.inBlockComment)

C38_IdsDistinct ==
  lex.scanned =>
    \A i, j \in 1..Len(lex.emits) :
      i # j => StatementId(lex.emits[i].st) # StatementId(lex.emits[j].st)

\* ------------------------------------------------------------------------
\* Specification SpecGuard: the staging guard, its scanner and the index
\* ------------------------------------------------------------------------

\* stagingGuard.mode
Modes == {"strict", "warn", "lenient"}

\* the files of each repository
RepoPaths(r) == IF r = 1 THEN {1, 2} ELSE {3, 4}

\* the buttons of the modal warning that matter to the index
Answers == {"continue", "dismiss"}

InitGuard ==
  /\ fs = (1 :> File0(ContentTwo)) @@ (2 :> File0(ContentNone)) @@
          (3 :> File0(ContentOne)) @@ (4 :> File0(ContentTwo)) @@
          (5 :> File0(ContentNone))
  /\ excluded = {}
  /\ onScanComplete = FALSE
  /\ InitScanner
  /\ index = [r \in Repos |-> {}]
  /\ prevStaged = [r \in Repos |-> {}]
  /\ handler = [s \in Callers |-> IdleHandler]
  /\ mode \in Modes
  /\ InitClearIdle
  /\ lex = LexIdle
  /\ InitDirsIdle
  /\ InitSideIdle

\* Handler runs are interchangeable: the second one is the one that overlaps
\* a run of the first.
MayHandle(h) ==
  /\ handler[h].hpc = "idle"
  /\ h = 2 => handler[1].hpc # "idle"

\* The onDidChange handler of repository r up to its first await, run h, with
\* current the paths of indexChanges: newly is what current has and
\* prevStaged has not, in the order of indexChanges; prevStaged is set; if
\* newly is not empty, scanner.scanFiles(newly) is called.  The field restaged
\* of the run is that of the record from.
handlerFrom(h, r, current, from) ==
  /\ prevStaged' = [prevStaged EXCEPT ![r] = current]
  /\ IF current \ prevStaged[r] = {}
     THEN /\ handler' = [handler EXCEPT ![h] = IdleHandler]
          /\ call' = [call EXCEPT ![h] = IdleCall]
          /\ UNCHANGED scanInProgress
     ELSE \E newly \in Orderings(current \ prevStaged[r]) :
            /\ handler' = [handler EXCEPT ![h] =
                             [from EXCEPT !.hpc = "scanning", !.repo = r,
                                          !.newly = newly]]
            /\ scanFilesBegin(h, newly)

handlerBegin(h, r, current) == handlerFrom(h, r, current, IdleHandler)

\* the user stages a file: the index of the repository changes and its
\* onDidChange event runs the handler
StageFile(h, r, p) ==
  /\ MayHandle(h)
  /\ p \in RepoPaths(r) \ index[r]
  /\ index' = [index EXCEPT ![r] = index[r] \cup {p}]
  /\ handlerBegin(h, r, index[r] \cup {p})
  /\ UNCHANGED <<mode, onScanComplete, fileCache, scanResults>>
  /\ UNCHANGED <<envVars, clearVars, lex, dirVars, sideVars>>

\* the paths of a list
Range(q) == {q[i] : i \in 1..Len(q)}

\* unstage(newly): git.unstage takes the paths out of the index; the
\* onDidChange event of that change runs the handler, which finds nothing
\* newly staged
unstage(r, newly) ==
  /\ index' = [index EXCEPT ![r] = index[r] \ Range(newly)]
  /\ prevStaged' = [prevStaged EXCEPT ![r] = index[r] \ Range(newly)]

\* the handler after `await this.scanner.scanFiles(newly)`
afterScan(h) ==
  /\ handler[h].hpc = "scanning"
  /\ call[h].pc \in {"returned", "rejected"}
  /\ call' = [call EXCEPT ![h] = IdleCall]
  /\ IF call[h].result.totalStatements <= 0
     THEN /\ handler' = [handler EXCEPT ![h] = IdleHandler]
          /\ UNCHANGED <<index, prevStaged>>
     ELSE IF mode = "strict"
     THEN /\ unstage(handler[h].repo, handler[h].newly)
          /\ handler' = [handler EXCEPT ![h] = IdleHandler]
     ELSE IF mode = "warn"
     THEN /\ unstage(handler[h].repo, handler[h].newly)
          /\ handler' = [handler EXCEPT ![h].hpc = "dialog", ![h].unstaged = TRUE]
     ELSE /\ handler' = [handler EXCEPT ![h] = IdleHandler]
          /\ UNCHANGED <<index, prevStaged>>
  /\ UNCHANGED <<mode, onScanComplete, scanInProgress, fileCache, scanResults>>
  /\ UNCHANGED <<envVars, clearVars, lex, dirVars, sideVars>>

\* a guard that stages the files again whatever the answer
stagesAlways(answer) == TRUE

\* if (answer === t('btn.continue'))
stagesAgain(answer) == answer = "continue"

\* Warn mode: the user has answered the modal warning.  On Continue,
\* stage(newly) puts the paths back into the index, and the onDidChange event
\* of that change runs the handler again while this run ends; restaged tells
\* that this new run comes from the answer Continue.
dialogAnswered(h, answer) ==
  /\ handler[h].hpc = "dialog"
  /\ IF stagesAgain(answer)
     THEN /\ index' = [index EXCEPT ![handler[h].repo] =
                         index[handler[h].repo] \cup Range(handler[h].newly)]
          /\ handlerFrom(h, handler[h].repo,
                         index[handler[h].repo] \cup Range(handler[h].newly),
                         [IdleHandler EXCEPT !.restaged = (answer = "continue")])
     ELSE /\ handler' = [handler EXCEPT ![h] = IdleHandler]
          /\ UNCHANGED <<index, prevStaged, call, scanInProgress>>
  /\ UNCHANGED <<mode, onScanComplete, fileCache, scanResults>>
  /\ UNCHANGED <<envVars, clearVars, lex, dirVars, sideVars>>

NextGuard ==
  \/ \E h \in Callers : \E r \in Repos : \E p \in AllPaths : StageFile(h, r, p)
  \/ \E h \in Callers : afterScan(h)
  \/ \E h \in Callers : \E answer \in Answers : dialogAnswered(h, answer)
  \/ \E s \in Callers : \E k \in 1..2 : TaskStat(s, k)
  \/ \E s \in Callers : \E k \in 1..2 : TaskRead(s, k)
  \/ \E s \in Callers : BatchDone(s)
  \/ \E s \in Callers : CleanupDone(s)

SpecGuard == InitGuard /\ [][NextGuard]_vars

\* no handler runs
guardQuiet == \A h \in Callers : handler[h].hpc = "idle"

hasDebugStatement(p) ==
  endsWithPhp(p) /\ fs[p].content # Missing /\ scanContent(p, fs[p].content) # << >>

\* C4: in strict mode, once the guard has handled every change of the
\* indexes, no .php file that holds a debug statement is staged: each change
\* that staged one has ended with its newly staged paths unstaged.
C4_StrictUnstagesDebugFiles ==
  (mode = "strict" /\ guardQuiet) =>
    \A r \in Repos : \A p \in index[r] : ~hasDebugStatement(p)

C24_RestageLeftAlone ==
  [][\A h \in Callers :
       (handler[h].restaged /\ handler[h].hpc = "scanning") =>
         /\ handler'[h].hpc # "dialog"
         /\ index[handler[h].repo] \subseteq index'[handler[h].repo]]_vars

\* ------------------------------------------------------------------------
\* Specification SpecClear: the clear commands of the view, the documents
\* and the bookmarks
\* ------------------------------------------------------------------------

\* the files with an open document
DocPaths == {1, 2}

\* the texts of the lines of the documents
TwoCalls == <<"d", "d", "(", "$", "a", ")", ";", " ", "d", "d", "(", "$", "b", ")", ";">>

OneCall == <<"v", "a", "r", "_", "d", "u", "m", "p", "(", "$", "c", ")", ";">>

NoCall == <<"$", "x", " ", "=", " ", "1", ";">>

LineTexts == {TwoCalls, OneCall, NoCall}

\* the number of lines of text of the first document; the second has one
MaxDocLines == 2

\* A document is a sequence of lines; uid tells the lines of a document
\* apart.  A file that ends with a line break has an empty last line.
LastLine == [uid |-> 0, text |-> << >>]

Documents(n) ==
  {[i \in 1..(n + 1) |-> IF i <= n THEN [uid |-> i, text |-> texts[i]] ELSE LastLine] :
     texts \in [1..n -> LineTexts]}

\* document.getText().split('\n')
linesOf(d) == [i \in 1..Len(d) |-> d[i].text]

\* editBuilder.delete(document.lineAt(lineIdx).rangeIncludingLineBreak): the
\* last line of a document has no line break after it and is left empty
deleteLine(d, lineIdx) ==
  IF lineIdx + 1 < Len(d)
  THEN SubSeq(d, 1, lineIdx) \o SubSeq(d, lineIdx + 2, Len(d))
  ELSE [d EXCEPT ![lineIdx + 1] = LastLine]

\* DebugDataProvider.clearStatement on the documents docs with the bookmarks
\* marks: the documents after it and whether it returned true.
\* document.lineAt throws for a line the document has not.
clearStatement(docs, marks, statement) ==
  IF StatementId(statement) \in marks THEN [doc |-> docs, ok |-> FALSE]
  ELSE IF statement.lineNumber > Len(docs[statement.filePath])
  THEN [doc |-> docs, ok |-> FALSE]
  ELSE [doc |-> [docs EXCEPT ![statement.filePath] =
                   deleteLine(docs[statement.filePath], statement.lineNumber - 1)],
        ok |-> TRUE]

\* the comparator of clearFileStatements and clearAllStatements: lineNumber
\* descending, then column descending
RECURSIVE insertDescending(_, _)
insertDescending(sorted, x) ==
  IF sorted = << >> THEN <<x>>
  ELSE IF \/ sorted[Len(sorted)].lineNumber > x.lineNumber
          \/ /\ sorted[Len(sorted)].lineNumber = x.lineNumber
             /\ sorted[Len(sorted)].column >= x.column
  THEN Append(sorted, x)
  ELSE Append(insertDescending(SubSeq(sorted, 1, Len(sorted) - 1), x), sorted[Len(sorted)])

RECURSIVE sortDescending(_, _, _)
sortDescending(statements, i, sorted) ==
  IF i > Len(statements) THEN sorted
  ELSE sortDescending(statements, i + 1, insertDescending(sorted, statements[i]))

\* `for (const statement of statements) await this.clearStatement(statement)`
RECURSIVE clearEach(_, _, _, _)
clearEach(docs, marks, statements, i) ==
  IF i > Len(statements) THEN docs
  ELSE clearEach(clearStatement(docs, marks, statements[i]).doc, marks, statements, i + 1)

\* the statements of file filePath that are not bookmarked, as
\* clearFileStatements orders them
clearList(filePath) ==
  sortDescending(
    SelectSeq(lastScanResult,
              LAMBDA st : st.filePath = filePath /\ StatementId(st) \notin bookmarks),
    1, << >>)

\* DebugDataProvider.clearFileStatements
clearFileStatements(docs, filePath) == clearEach(docs, bookmarks, clearList(filePath), 1)

\* DebugDataProvider.clearAllStatements: file by file, in the order in which
\* the files come in the statements of the last scan
clearAllStatements(docs) == clearFileStatements(clearFileStatements(docs, 1), 2)

\* performScan: scanWorkspace over the saved documents, then updateTreeData
\* (no type is disabled)
performScan(docs) ==
  sortStatements(scanContent(1, linesOf(docs[1])) \o scanContent(2, linesOf(docs[2])))

InitClear ==
  /\ InitFiles
  /\ onScanComplete = TRUE
  /\ InitScanner
  /\ InitGuardIdle
  /\ doc \in [DocPaths -> Documents(MaxDocLines) \cup Documents(1)]
  /\ doc[1] \in Documents(MaxDocLines)
  /\ doc[2] \in Documents(1)
  /\ lastScanResult = performScan(doc)
  /\ bookmarks = {}
  /\ lex = LexIdle
  /\ InitDirsIdle
  /\ InitSideIdle

\* DebugDataProvider.toggleBookmark on a statement of the tree
toggleBookmark(k) ==
  /\ k \in 1..Len(lastScanResult)
  /\ bookmarks' = IF StatementId(lastScanResult[k]) \in bookmarks
                  THEN bookmarks \ {StatementId(lastScanResult[k])}
                  ELSE bookmarks \cup {StatementId(lastScanResult[k])}
  /\ UNCHANGED <<doc, lastScanResult>>
  /\ UNCHANGED <<scannerVars, envVars, guardVars, lex, dirVars, sideVars>>

cleared(r) ==
  /\ doc' = r.doc
  /\ lastScanResult' = IF r.ok THEN performScan(r.doc) ELSE lastScanResult

\* the view's clearStatement on a statement of the tree, confirmed: the
\* statement is cleared and, if that succeeded, the workspace scanned again
viewClearStatement(k) ==
  /\ k \in 1..Len(lastScanResult)
  /\ cleared(clearStatement(doc, bookmarks, lastScanResult[k]))
  /\ UNCHANGED bookmarks
  /\ UNCHANGED <<scannerVars, envVars, guardVars, lex, dirVars, sideVars>>

rescanned(docs) ==
  /\ doc' = docs
  /\ lastScanResult' = performScan(docs)

\* the view's clearFile on a file of the tree, confirmed
viewClearFile(filePath) ==
  /\ \E k \in 1..Len(lastScanResult) : lastScanResult[k].filePath = filePath
  /\ rescanned(clearFileStatements(doc, filePath))
  /\ UNCHANGED bookmarks
  /\ UNCHANGED <<scannerVars, envVars, guardVars, lex, dirVars, sideVars>>

\* the view's clearAll, confirmed
viewClearAll ==
  /\ lastScanResult # << >>
  /\ rescanned(clearAllStatements(doc))
  /\ UNCHANGED bookmarks
  /\ UNCHANGED <<scannerVars, envVars, guardVars, lex, dirVars, sideVars>>

NextClear ==
  \/ \E k \in 1..(2 * MaxDocLines + 2) : toggleBookmark(k)
  \/ \E k \in 1..(2 * MaxDocLines + 2) : viewClearStatement(k)
  \/ \E filePath \in DocPaths : viewClearFile(filePath)
  \/ viewClearAll

SpecClear == InitClear /\ [][NextClear]_vars

\* the line of the documents docs that holds the text of statement st
hasLine(docs, p, uid) == \E i \in 1..Len(docs[p]) : docs[p][i].uid = uid

\* C5: no clear command takes out of its document the line of a statement
\* of the tree that is bookmarked when the command runs.
C5_BookmarkedStatementKept ==
  [][\A k \in 1..Len(lastScanResult) :
       StatementId(lastScanResult[k]) \in bookmarks =>
         hasLine(doc', lastScanResult[k].filePath,
                 doc[lastScanResult[k].filePath][lastScanResult[k].lineNumber].uid)]_vars

\* a statement of the tree that is not bookmarked stands on line i (1-based)
\* of document p
clearableLine(p, i) ==
  \E k \in 1..Len(lastScanResult) :
    /\ lastScanResult[k].filePath = p
    /\ lastScanResult[k].lineNumber = i
    /\ StatementId(lastScanResult[k]) \notin bookmarks

\* C25: a clear command deletes only lines that hold a debug statement that
\* is not bookmarked, also when a line holds several statements: every other
\* line of text is in its document after the command.
C25_OtherLinesKept ==
  [][\A p \in DocPaths : \A i \in 1..Len(doc[p]) :
       (doc[p][i].uid # 0 /\ ~clearableLine(p, i)) =>
         hasLine(doc', p, doc[p][i].uid)]_vars

\* ------------------------------------------------------------------------
\* Specification SpecWatch: the file watcher of one scanner instance
\* ------------------------------------------------------------------------

\* the number of file-change events the watcher delivers
MaxEvents == 2

\* handleFileChange: an event of the watcher (create, change or delete).  With
\* a scan in progress it returns; otherwise it sets a timer of one second of
\* its own.  An event that comes after a timer has fired is late: more than
\* the delay after the first event.
handleFileChange ==
  /\ watch.events < MaxEvents
  /\ watch' = [watch EXCEPT
                 !.events = watch.events + 1,
                 !.timers = IF scanInProgress THEN watch.timers
                            ELSE Append(watch.timers, watch.events + 1),
                 !.late = watch.late \/ watch.fired > 0,
                 !.unscanned = watch.unscanned + 1]
  /\ UNCHANGED <<scannerVars, envVars, guardVars, clearVars, lex, dirVars, expr, dump, view, tree>>

\* The oldest timer fires (the timers have the same delay): its callback
\* calls scanWorkspace, as caller s, and the call runs up to its first await.
TimerFires(s) ==
  /\ watch.timers # << >>
  /\ s = watch.fired + 1
  /\ call[s].pc = "idle"
  /\ scanWorkspaceBegin(s, TRUE)
  /\ watch' = [watch EXCEPT !.timers = Tail(watch.timers),
                            !.fired = watch.fired + 1,
                            !.runs = IF scanIsRejected THEN watch.runs
                                     ELSE watch.runs + 1,
                            !.unscanned = IF scanIsRejected THEN watch.unscanned
                                          ELSE 0]
  /\ UNCHANGED <<fs, excluded, onScanComplete, fileCache, scanResults>>
  /\ UNCHANGED <<guardVars, clearVars, lex, dirVars, expr, dump, view, tree>>

NextWatch ==
  \/ handleFileChange
  \/ \E s \in Callers : TimerFires(s)
  \/ \E s \in Callers : WorkspaceCollected(s)
  \/ \E s \in Callers : \E k \in 1..2 : TaskStat(s, k)
  \/ \E s \in Callers : \E k \in 1..2 : TaskRead(s, k)
  \/ \E s \in Callers : BatchDone(s)
  \/ \E s \in Callers : CleanupDone(s)

SpecWatch == Init /\ [][NextWatch]_vars

\* the same with the timers firing and the promises of a scan settling
SpecWatchFair ==
  /\ Init
  /\ [][NextWatch]_vars
  /\ WF_vars(\E s \in Callers : TimerFires(s))
  /\ WF_vars(Settles)
  /\ ReadsSettle

\* C12: the events of a burst, all delivered before the delay of the first
\* one has passed and with no scan in progress, lead to one scanWorkspace
\* run: never a second one, and one when their timers have fired.
C12_BurstScansOnce ==
  ~watch.late =>
    /\ watch.runs <= 1
    /\ (watch.events >= 1 /\ watch.timers = << >>) => watch.runs = 1

\* C23: every event of the watcher is followed by a scanWorkspace run that a
\* timer starts after it, also an event delivered while a scan is in
\* progress.
C23_ChangeLeadsToScan ==
  (watch.unscanned > 0) ~> (watch.unscanned = 0)

\* ------------------------------------------------------------------------
\* Specification SpecProvider: the data provider, the scanner it owns with
\* the callback handleScanComplete, the watcher and the performScan calls of
\* the view
\* ------------------------------------------------------------------------

\* the caller that stands for the performScan calls (the other one is left to
\* the timers of the watcher)
ViewCallers == {2}

\* updateTreeData: lastScanResult.statements (no type is disabled)
updateTreeData(result) == result.statements

\* The scan of caller s returns: scanWorkspace calls onScanComplete, which
\* is handleScanComplete, and a performScan that awaits the call goes on with
\* updateTreeData of the same result.
handleScanComplete(s) ==
  /\ lastScanResult' = IF /\ call[s].pc # "returned"
                          /\ call'[s].pc = "returned"
                          /\ call'[s].notified
                       THEN updateTreeData(call'[s].result)
                       ELSE lastScanResult
  /\ UNCHANGED <<doc, bookmarks>>

\* performScan: scanWorkspace up to its first await; the guard's literal
\* comes back at once, and updateTreeData takes it
PerformScan(s) ==
  /\ call[s].pc = "idle"
  /\ scanWorkspaceBegin(s, TRUE)
  /\ lastScanResult' = IF call'[s].pc = "rejected"
                       THEN updateTreeData(call'[s].result)
                       ELSE lastScanResult
  /\ UNCHANGED <<doc, bookmarks>>
  /\ UNCHANGED <<fs, excluded, onScanComplete, fileCache, scanResults>>
  /\ UNCHANGED <<guardVars, lex, dirVars, sideVars>>

ProviderCollected(s) ==
  /\ filesCollected(s)
  /\ handleScanComplete(s)
  /\ UNCHANGED sideVars

ProviderBatchDone(s) ==
  /\ batchSettled(s)
  /\ handleScanComplete(s)
  /\ UNCHANGED sideVars

ProviderCleanupDone(s) ==
  /\ memoryCleaned(s)
  /\ handleScanComplete(s)
  /\ UNCHANGED sideVars

NextProvider ==
  \/ handleFileChange
  \/ \E s \in Callers : TimerFires(s)
  \/ \E s \in ViewCallers : PerformScan(s)
  \/ \E s \in ViewCallers : CallOver(s)
  \/ \E s \in Callers : ProviderCollected(s)
  \/ \E s \in Callers : \E k \in 1..2 : TaskStat(s, k)
  \/ \E s \in Callers : \E k \in 1..2 : TaskRead(s, k)
  \/ \E s \in Callers : ProviderBatchDone(s)
  \/ \E s \in Callers : ProviderCleanupDone(s)

SpecProvider == Init /\ [][NextProvider]_vars

\* C22: a performScan that overlaps a scan of the watcher does not replace
\* the statements of the provider by the empty result of the rejected call:
\* no step in which a call is rejected changes lastScanResult.
C22_PlaceholderKeptOut ==
  [][\A s \in Callers :
       (call[s].pc = "idle" /\ call'[s].pc = "rejected")
         => lastScanResult' = lastScanResult]_vars

\* ------------------------------------------------------------------------
\* Specification SpecQueue: the queue of updates of DebugManagerView
\* ------------------------------------------------------------------------

\* the number of updates that are queued
MaxUpdates == 4

\* what an update does when it is called: it returns a promise that
\* resolves, a promise that rejects, or it throws before returning
UpdateKinds == {"resolves", "rejects", "throws"}

\* scheduleUpdate: the 100 ms timer is set unless one is set or a batch is
\* being processed
scheduleUpdate(v) ==
  IF v.updateTimer \/ v.isUpdating THEN v
  ELSE [v EXCEPT !.updateTimer = TRUE, !.timerPending = TRUE]

\* queueUpdate(updateFn)
queueUpdate(kind) ==
  /\ Len(view.kinds) < MaxUpdates
  /\ view' = scheduleUpdate([view EXCEPT
                               !.updateQueue = Append(@, Len(view.kinds) + 1),
                               !.kinds = Append(@, kind)])
  /\ UNCHANGED <<scannerVars, envVars, guardVars, clearVars, lex, dirVars, watch, expr, dump, tree>>

\* a splice that leaves the updates in the queue
spliceNothing(queue) == queue

\* this.updateQueue.splice(0): what the queue holds after it
spliceAll(queue) == << >>

\* the finally block of processUpdateQueue
loopEnds(v) ==
  IF v.updateQueue # << >>
  THEN scheduleUpdate([v EXCEPT !.isUpdating = FALSE, !.updates = << >>, !.pos = 0,
                                !.resumed = TRUE])
  ELSE [v EXCEPT !.isUpdating = FALSE, !.updates = << >>, !.pos = 0]

\* `for (const update of updates) await update()` from the position v.pos up
\* to an update whose promise is pending: the wrapper of queueUpdate catches
\* what the update throws and the loop goes on
RECURSIVE runUpdates(_)
runUpdates(v) ==
  IF v.pos > Len(v.updates) THEN loopEnds(v)
  ELSE IF v.kinds[v.updates[v.pos]] = "throws"
  THEN runUpdates([v EXCEPT !.started = Append(@, v.updates[v.pos]), !.pos = @ + 1])
  ELSE [v EXCEPT !.started = Append(@, v.updates[v.pos]),
                 !.running = @ \cup {v.updates[v.pos]}]

\* processUpdateQueue up to its first pending await
processUpdateQueue(v) ==
  IF v.isUpdating \/ v.updateQueue = << >> THEN v
  ELSE runUpdates([v EXCEPT !.isUpdating = TRUE, !.updateTimer = FALSE,
                            !.updates = v.updateQueue,
                            !.updateQueue = spliceAll(v.updateQueue),
                            !.pos = 1])

\* the timer of scheduleUpdate fires
updateTimerFires ==
  /\ view.timerPending
  /\ view' = processUpdateQueue([view EXCEPT !.timerPending = FALSE])
  /\ UNCHANGED <<scannerVars, envVars, guardVars, clearVars, lex, dirVars, watch, expr, dump, tree>>

\* The promise of a running update settles.  Resolved, the loop goes on with
\* the next update of the batch; rejected, `await update()` throws, the loop
\* is left and the finally block runs.
updateSettles(id) ==
  /\ id \in view.running
  /\ view' = IF view.kinds[id] = "rejects"
             THEN loopEnds([view EXCEPT !.running = @ \ {id}])
             ELSE runUpdates([view EXCEPT !.running = @ \ {id}, !.pos = @ + 1])
  /\ UNCHANGED <<scannerVars, envVars, guardVars, clearVars, lex, dirVars, watch, expr, dump, tree>>

NextQueue ==
  \/ \E kind \in UpdateKinds : queueUpdate(kind)
  \/ updateTimerFires
  \/ \E id \in 1..MaxUpdates : updateSettles(id)

SpecQueue == Init /\ [][NextQueue]_vars

\* no timer is pending and no batch is being processed
queueAtRest == ~view.timerPending /\ ~view.isUpdating

\* C26: the queued updates run one at a time and in the order in which they
\* were queued, none twice; when no update fails, every update queued has run
\* once the queue is at rest, also an update queued while a batch was being
\* processed or while the timer was pending.
C26_UpdatesRunOnceInOrder ==
  /\ Cardinality(view.running) <= 1
  /\ \A i, j \in 1..Len(view.started) : i < j => view.started[i] < view.started[j]
  /\ (queueAtRest /\ \A id \in 1..Len(view.kinds) : view.kinds[id] = "resolves") =>
       view.started = [id \in 1..Len(view.kinds) |-> id]

\* all the updates have been queued and have run, none failed, and one of
\* them was queued while a batch was being processed
C26_Witness ==
  /\ queueAtRest
  /\ view.resumed
  /\ Len(view.kinds) = MaxUpdates
  /\ \A id \in 1..MaxUpdates : view.kinds[id] = "resolves"
  /\ Len(view.started) = MaxUpdates

\* C27: an update that throws or whose promise rejects does not keep the
\* updates queued after it from running: once the queue is at rest every
\* update queued has run.
C27_FailureSkipsNoUpdate ==
  queueAtRest => \A id \in 1..Len(view.kinds) : \E i \in 1..Len(view.started) : view.started[i] = id

\* ------------------------------------------------------------------------
\* The tree of the data provider: buildTreeStructure and getChildren
\* ------------------------------------------------------------------------

\* the files of the workspace of the tree: /w/a.php, /w/b/c.php, /w/g/a.php
\* and /w/g/b/c.php
TreePaths == {1, 2, 7, 8}

treeContent(p) == IF p \in {1, 8} THEN ContentTwo ELSE ContentOne

ViewModes == {"nested", "flat"}

\* private cacheTimeout: number = 30000
cacheTimeout == 30000

\* private maxCacheSize: number = 100
maxCacheSize == 100

\* text.split(path.sep).filter(Boolean), from the 1-based position i with the
\* part cur begun
RECURSIVE splitParts(_, _, _)
splitParts(text, i, cur) ==
  IF i > Len(text) THEN (IF cur = << >> THEN << >> ELSE <<cur>>)
  ELSE IF text[i] = "/"
  THEN (IF cur = << >> THEN << >> ELSE <<cur>>) \o splitParts(text, i + 1, << >>)
  ELSE splitParts(text, i + 1, Append(cur, text[i]))

\* path.basename of an absolute path of a file
basename(filePath) ==
  splitParts(filePath, 1, << >>)[Len(splitParts(filePath, 1, << >>))]

\* path.dirname of an absolute path of a file
dirname(filePath) ==
  SubSeq(filePath, 1, Max({i \in 1..Len(filePath) : filePath[i] = "/"}) - 1)

\* path.relative(ws, dirPath) for a directory at or below ws
relative(ws, dirPath) ==
  IF dirPath = ws THEN << >> ELSE SubSeq(dirPath, Len(ws) + 2, Len(dirPath))

\* String(n) of a natural number
RECURSIVE toString(_)
toString(n) ==
  IF n < 10 THEN <<CHOOSE c \in DigitChars : c = <<"0", "1", "2", "3", "4", "5", "6", "7", "8", "9">>[n + 1]>>
  ELSE toString(n \div 10) \o toString(n % 10)

\* a TreeNode with no child yet
NewNode(type, label, parent) ==
  [type |-> type, label |-> label, parent |-> parent, children |-> << >>]

\* parent.children.push(node), the node being put at the end of nodes
pushNode(nodes, node) ==
  [Append(nodes, node) EXCEPT ![node.parent].children = Append(@, Len(nodes) + 1)]

\* dirNodeMap.get(key): 0 stands for undefined
dirNodeMapGet(dirNodeMap, key) ==
  IF \E i \in 1..Len(dirNodeMap) : dirNodeMap[i].key = key
  THEN dirNodeMap[CHOOSE i \in 1..Len(dirNodeMap) : dirNodeMap[i].key = key].node
  ELSE 0

\* `for (const part of parts)` from part i with parentNode and acc: the
\* folder nodes of the directories of a file, made when they are not in
\* dirNodeMap
RECURSIVE folderNodes(_, _, _, _, _)
folderNodes(b, parts, i, parentNode, acc) ==
  IF i > Len(parts) THEN [nodes |-> b.nodes, dirNodeMap |-> b.dirNodeMap,
                          parentNode |-> parentNode]
  ELSE IF dirNodeMapGet(b.dirNodeMap, acc \o <<"/">> \o parts[i]) # 0
  THEN folderNodes(b, parts, i + 1,
                   dirNodeMapGet(b.dirNodeMap, acc \o <<"/">> \o parts[i]),
                   acc \o <<"/">> \o parts[i])
  ELSE folderNodes([nodes |-> pushNode(b.nodes, NewNode("folder", parts[i], parentNode)),
                    dirNodeMap |-> Append(b.dirNodeMap,
                                          [key |-> acc \o <<"/">> \o parts[i],
                                           node |-> Len(b.nodes) + 1])],
                   parts, i + 1, Len(b.nodes) + 1, acc \o <<"/">> \o parts[i])

\* `${t('line')} ${statement.lineNumber}: ${statement.content}`
statementLabel(statement) ==
  <<"l", "i", "n", "e", " ">> \o toString(statement.lineNumber) \o <<":", " ">>
    \o statement.content

\* statements.forEach(statement => fileNode.children.push(statementNode))
RECURSIVE statementNodes(_, _, _, _)
statementNodes(nodes, statements, i, fileNode) ==
  IF i > Len(statements) THEN nodes
  ELSE statementNodes(pushNode(nodes, NewNode("statement", statementLabel(statements[i]),
                                              fileNode)),
                      statements, i + 1, fileNode)

\* the body of the forEach over the file groups: the nodes of one file (the
\* root node is the first node)
fileNodes(b, viewMode, filePath, statements) ==
  LET at == IF viewMode = "flat"
            THEN [nodes |-> b.nodes, dirNodeMap |-> b.dirNodeMap, parentNode |-> 1]
            ELSE folderNodes(b, splitParts(relative(pathName(0), dirname(pathName(filePath))),
                                           1, << >>),
                             1, 1, pathName(0))
  IN [nodes |-> statementNodes(pushNode(at.nodes,
                                        NewNode("file", basename(pathName(filePath)),
                                                at.parentNode)),
                               statements, 1, Len(at.nodes) + 1),
      dirNodeMap |-> at.dirNodeMap]

\* the file groups in the order of localeCompare, from the files left
RECURSIVE groupNodes(_, _, _, _)
groupNodes(b, viewMode, statements, files) ==
  IF files = {} THEN b.nodes
  ELSE groupNodes(fileNodes(b, viewMode, Min(files),
                            SelectSeq(statements, LAMBDA st : st.filePath = Min(files))),
                  viewMode, statements, files \ {Min(files)})

\* buildTreeStructure: the nodes of the tree of the statements; rootNodes is
\* the list of the first of them
buildTreeStructure(statements, viewMode) ==
  groupNodes([nodes |-> <<[type |-> "root",
                           label |-> <<"P", "H", "P", " ", "(">>
                                       \o toString(Len(statements)) \o <<")">>,
                           parent |-> 0, children |-> << >>]>>,
              dirNodeMap |-> << >>],
             viewMode, statements,
             {statements[i].filePath : i \in 1..Len(statements)})

\* element ? `${element.type}-${element.label}` : 'root'
cacheKey(nodes, element) ==
  IF element = 0 THEN <<"root", << >> >>
  ELSE <<nodes[element].type, <<"-">> \o nodes[element].label>>

\* this.resultCache.get(key): the place of the entry, 0 for undefined
cacheEntry(resultCache, key) ==
  IF \E i \in 1..Len(resultCache) : resultCache[i].key = key
  THEN CHOOSE i \in 1..Len(resultCache) : resultCache[i].key = key
  ELSE 0

\* an entry that a getChildren call never finds
neverCached(resultCache, key, now) == FALSE

\* getCachedResult(key) !== null
isCached(resultCache, key, now) ==
  /\ cacheEntry(resultCache, key) # 0
  /\ now - resultCache[cacheEntry(resultCache, key)].timestamp < cacheTimeout

\* cleanupCache: the entries past the lifetime go, then the oldest ones
\* beyond maxCacheSize
cleanupCache(resultCache, now) ==
  LET live == SelectSeq(resultCache, LAMBDA e : ~(now - e.timestamp > cacheTimeout))
  IN IF Len(live) > maxCacheSize
     THEN SubSeq(live, Len(live) - maxCacheSize + 1, Len(live))
     ELSE live

\* setCachedResult(key, data): Map.set keeps the place of a key it has
setCachedResult(resultCache, key, data, now) ==
  LET cleaned == cleanupCache(resultCache, now)
  IN IF cacheEntry(cleaned, key) # 0
     THEN [cleaned EXCEPT ![cacheEntry(cleaned, key)] =
             [key |-> key, data |-> data, timestamp |-> now]]
     ELSE Append(cleaned, [key |-> key, data |-> data, timestamp |-> now])

\* ------------------------------------------------------------------------
\* Specification SpecTree: a tree built from a scan, its cache and the clock
\* ------------------------------------------------------------------------

\* the getChildren calls made
MaxQueries == 2

\* the nodes a tree has at most
MaxNodes == 14

\* the last value of Date.now()
MaxClock == 45000

\* the statements of a scan of the files
RECURSIVE treeStatements(_)
treeStatements(files) ==
  IF files = {} THEN << >>
  ELSE scanContent(Min(files), treeContent(Min(files)))
         \o treeStatements(files \ {Min(files)})

InitTree ==
  /\ InitFiles
  /\ onScanComplete = TRUE
  /\ InitScanner
  /\ InitGuardIdle
  /\ doc = << >>
  /\ \E files \in (SUBSET TreePaths) \ {{}} :
       lastScanResult = updateTreeData([statements |-> sortStatements(treeStatements(files))])
  /\ bookmarks = {}
  /\ lex = LexIdle
  /\ InitDirsIdle
  /\ watch = WatchIdle
  /\ expr = ExprIdle
  /\ dump = DumpIdle
  /\ view = ViewIdle
  /\ \E viewMode \in ViewModes :
       tree = [TreeIdle EXCEPT !.viewMode = viewMode,
                               !.nodes = buildTreeStructure(lastScanResult, viewMode),
                               !.treeData = <<1>>]

\* getChildren(element); element 0 stands for a call without a node
getChildren(element) ==
  /\ tree.queries < MaxQueries
  /\ element <= Len(tree.nodes)
  /\ tree' = IF isCached(tree.resultCache, cacheKey(tree.nodes, element), tree.now)
             THEN [tree EXCEPT
                     !.queries = @ + 1, !.asked = element,
                     !.answer = tree.resultCache[cacheEntry(tree.resultCache,
                                                 cacheKey(tree.nodes, element))].data]
             ELSE [tree EXCEPT
                     !.queries = @ + 1, !.asked = element,
                     !.answer = IF element = 0 THEN tree.treeData
                                ELSE tree.nodes[element].children,
                     !.resultCache =
                        setCachedResult(tree.resultCache, cacheKey(tree.nodes, element),
                                        IF element = 0 THEN tree.treeData
                                        ELSE tree.nodes[element].children,
                                        tree.now)]
  /\ UNCHANGED <<scannerVars, envVars, guardVars, clearVars, lex, dirVars, watch, expr, dump, view>>

\* refresh(): this.resultCache.clear()
refresh ==
  /\ tree.resultCache # << >>
  /\ tree' = [tree EXCEPT !.resultCache = << >>]
  /\ UNCHANGED <<scannerVars, envVars, guardVars, clearVars, lex, dirVars, watch, expr, dump, view>>

\* half the lifetime of a cache entry passes
ClockTicks ==
  /\ tree.now < MaxClock
  /\ tree' = [tree EXCEPT !.now = @ + cacheTimeout \div 2]
  /\ UNCHANGED <<scannerVars, envVars, guardVars, clearVars, lex, dirVars, watch, expr, dump, view>>

NextTree ==
  \/ \E element \in 0..MaxNodes : getChildren(element)
  \/ refresh
  \/ ClockTicks

SpecTree == InitTree /\ [][NextTree]_vars

\* C28: getChildren answers with the children of the node it is asked for,
\* and with the root list when it is asked for no node, also for two nodes
\* of the same type and label.
C28_OwnChildrenReturned ==
  tree.queries > 0 =>
    tree.answer = IF tree.asked = 0 THEN tree.treeData
                  ELSE tree.nodes[tree.asked].children

\* ------------------------------------------------------------------------
\* The expression validator: scanBalanced, isPhpVariable,
\* isPhpFunctionOrStaticCall (offsets are 0-based as in the source)
\* ------------------------------------------------------------------------

\* s[i]: the character at the 0-based offset i, "" (no character) outside s
charAt(s, i) == IF i >= 0 /\ i < Len(s) THEN s[i + 1] ELSE ""

\* while (i < s.length && /\s/.test(s[i])) i++
skipBlanks(s, i) == IF i >= Len(s) THEN i ELSE SkipSpaces(s, i + 1) - 1

\* [a-zA-Z_] of the identifier pattern (the texts hold no byte above 0x7f)
IsIdentStart(c) == IsWordChar(c) /\ c \notin DigitChars

\* the length of the match of /^[a-zA-Z_][a-zA-Z0-9_]*/ on s.slice(i), 0 for
\* no match
identLen(s, i) ==
  IF ~IsIdentStart(charAt(s, i)) THEN 0
  ELSE Min({n \in 1..(Len(s) - i) : ~IsWordChar(charAt(s, i + n))})

\* the backslashes that end at offset j, not before start
RECURSIVE backslashes(_, _, _)
backslashes(src, start, j) ==
  IF j >= start /\ charAt(src, j) = "\\" THEN 1 + backslashes(src, start, j - 1) ELSE 0

\* the loop of scanBalanced at offset i
RECURSIVE scanBalancedFrom(_, _, _, _, _, _, _)
scanBalancedFrom(src, start, open, close, i, depth, quote) ==
  IF i >= Len(src) THEN -1
  ELSE IF quote # ""
  THEN scanBalancedFrom(src, start, open, close, i + 1, depth,
         IF charAt(src, i) = quote /\ backslashes(src, start, i - 1) % 2 = 0
         THEN "" ELSE quote)
  ELSE IF charAt(src, i) \in {"'", "\""}
  THEN scanBalancedFrom(src, start, open, close, i + 1, depth, charAt(src, i))
  ELSE IF charAt(src, i) = open
  THEN scanBalancedFrom(src, start, open, close, i + 1, depth + 1, quote)
  ELSE IF charAt(src, i) = close
  THEN IF depth - 1 = 0 THEN i
       ELSE IF depth - 1 < 0 THEN -1
       ELSE scanBalancedFrom(src, start, open, close, i + 1, depth - 1, quote)
  ELSE scanBalancedFrom(src, start, open, close, i + 1, depth, quote)

\* the offset of the close that matches the open at start, -1 for none
scanBalanced(src, start, open, close) ==
  scanBalancedFrom(src, start, open, close, start, 0, "")

\* The loop over the accessors that follow the base of an expression:
\* [index], ->property and ->method(arguments), from offset i.
RECURSIVE accessorsFrom(_, _)
afterBalanced(s, end) == IF end < 0 THEN FALSE ELSE accessorsFrom(s, end + 1)

afterProperty(s, i) ==
  IF charAt(s, i) = "(" THEN afterBalanced(s, scanBalanced(s, i, "(", ")"))
  ELSE accessorsFrom(s, i)

afterArrow(s, i) ==
  IF identLen(s, i) = 0 THEN FALSE
  ELSE afterProperty(s, skipBlanks(s, i + identLen(s, i)))

accessorAt(s, i) ==
  IF i >= Len(s) THEN TRUE
  ELSE IF charAt(s, i) = "[" THEN afterBalanced(s, scanBalanced(s, i, "[", "]"))
  ELSE IF charAt(s, i) = "-" /\ charAt(s, i + 1) = ">"
  THEN afterArrow(s, skipBlanks(s, i + 2))
  ELSE FALSE

accessorsFrom(s, i) == accessorAt(s, skipBlanks(s, i))

variableShape(s) ==
  /\ charAt(s, 0) = "$"
  /\ identLen(s, 1) > 0
  /\ accessorsFrom(s, 1 + identLen(s, 1))

isPhpVariable(text) == variableShape(trim(text))

\* the callee pattern: an identifier, or identifiers joined by ::
RECURSIVE calleeFrom(_, _)
calleeFrom(callee, i) ==
  IF identLen(callee, i) = 0 THEN FALSE
  ELSE IF i + identLen(callee, i) >= Len(callee) THEN TRUE
  ELSE /\ charAt(callee, i + identLen(callee, i)) = ":"
       /\ charAt(callee, i + identLen(callee, i) + 1) = ":"
       /\ calleeFrom(callee, i + identLen(callee, i) + 2)

callShape(s, idx) ==
  /\ idx > 0
  /\ calleeFrom(trim(slice(s, 0, idx)), 0)
  /\ afterBalanced(s, scanBalanced(s, idx, "(", ")"))

isPhpFunctionOrStaticCall(text) ==
  callShape(trim(text), indexOf(trim(text), <<"(">>, 0))

\* ------------------------------------------------------------------------
\* Specification SpecExpr: texts handed to the expression validator
\* ------------------------------------------------------------------------

\* the pieces a text is made of
ExprPieces ==
  {<<"$", "a">>, <<"f">>, <<"[">>, <<"]">>, <<"(">>, <<")">>, <<"'">>,
   <<"-", ">", "m">>}

\* the number of pieces of a text
MaxExprPieces == 5

\* the user adds a piece to the text
ExprType(piece) ==
  /\ ~expr.checked
  /\ expr.pieces < MaxExprPieces
  /\ expr' = [expr EXCEPT !.text = expr.text \o piece, !.pieces = expr.pieces + 1]
  /\ UNCHANGED <<scannerVars, envVars, guardVars, clearVars, lex, dirVars, watch, dump, view, tree>>

\* the validator runs on the text
ExprValidate ==
  /\ ~expr.checked
  /\ expr' = [expr EXCEPT !.checked = TRUE,
                          !.variable = isPhpVariable(expr.text),
                          !.callable = isPhpFunctionOrStaticCall(expr.text)]
  /\ UNCHANGED <<scannerVars, envVars, guardVars, clearVars, lex, dirVars, watch, dump, view, tree>>

NextExpr ==
  \/ \E piece \in ExprPieces : ExprType(piece)
  \/ ExprValidate

SpecExpr == Init /\ [][NextExpr]_vars

\* the bracket that closes an opening bracket
closerOf(c) == IF c = "(" THEN ")" ELSE "]"

\* Balanced brackets: reading the text from offset i with the stack of the
\* brackets that are open and the quote that is open ("" for none), every
\* closing bracket outside quotes closes the bracket opened last and no
\* bracket stays open.
RECURSIVE balancedFrom(_, _, _, _)
balancedFrom(t, i, stack, quote) ==
  IF i >= Len(t) THEN stack = << >>
  ELSE IF quote # ""
  THEN IF charAt(t, i) = "\\" THEN balancedFrom(t, i + 2, stack, quote)
       ELSE balancedFrom(t, i + 1, stack, IF charAt(t, i) = quote THEN "" ELSE quote)
  ELSE IF charAt(t, i) \in {"'", "\""} THEN balancedFrom(t, i + 1, stack, charAt(t, i))
  ELSE IF charAt(t, i) \in {"(", "["}
  THEN balancedFrom(t, i + 1, <<closerOf(charAt(t, i))>> \o stack, quote)
  ELSE IF charAt(t, i) \in {")", "]"}
  THEN /\ stack # << >>
       /\ stack[1] = charAt(t, i)
       /\ balancedFrom(t, i + 1, Tail(stack), quote)
  ELSE balancedFrom(t, i + 1, stack, quote)

bracketsBalanced(t) == balancedFrom(t, 0, << >>, "")

\* C17: a text that isPhpVariable or isPhpFunctionOrStaticCall accepts has
\* balanced brackets: each ( and [ outside quotes is closed by its own
\* bracket, in nested order.
C17_AcceptedIsBalanced ==
  (expr.checked /\ (expr.variable \/ expr.callable)) => bracketsBalanced(expr.text)

\* ------------------------------------------------------------------------
\* The dumpVariable command: the checks of the selection
\* ------------------------------------------------------------------------

\* A document is the sequence of its lines; a selection lies in one line:
\* [line, start, end] with 0-based line and characters.

\* document.lineAt(i).text
lineAt(document, i) == document[i + 1]

\* document.getText(selection)
getText(document, selection) ==
  slice(lineAt(document, selection.line), selection.start, selection.end)

\* text.replace(/\s+$/, '')
trimEnd(t) ==
  IF \A i \in 1..Len(t) : IsSpace(t[i]) THEN << >>
  ELSE SubSeq(t, 1, Max({i \in 1..Len(t) : ~IsSpace(t[i])}))

\* String.prototype.trimStart
trimStart(t) == SubSeq(t, SkipSpaces(t, 1), Len(t))

dropSemicolon(s) ==
  IF Len(s) > 0 /\ s[Len(s)] = ";" THEN SubSeq(s, 1, Len(s) - 1) ELSE s

stripTrailingSemicolon(text) == dropSemicolon(trimEnd(text))

\* String.prototype.lastIndexOf(c, position): a negative position counts as 0
lastIndexOf(t, c, position) ==
  IF {i \in 0..(IF position < 0 THEN 0 ELSE position) : charAt(t, i) = c} = {} THEN -1
  ELSE Max({i \in 0..(IF position < 0 THEN 0 ELSE position) : charAt(t, i) = c})

\* Math.min of the two offsets with Infinity for an offset of -1; -1 stands
\* for the result Infinity
minOrInfinity(a, b) ==
  IF a = -1 THEN b ELSE IF b = -1 THEN a ELSE Min({a, b})

quotedBetween(leftQuote, rightQuote, selection) ==
  /\ leftQuote # -1
  /\ rightQuote # -1
  /\ leftQuote < selection.start
  /\ rightQuote > selection.end

isQuotedStringContext(lineText, selection) ==
  quotedBetween(
    Max({lastIndexOf(lineText, "\"", selection.start - 1),
         lastIndexOf(lineText, "'", selection.start - 1)}),
    minOrInfinity(indexOf(lineText, <<"\"">>, selection.end),
                  indexOf(lineText, <<"'">>, selection.end)),
    selection)

looksLikeFunctionCall(lineText, selection) ==
  StartsWithAt(trimStart(slice(lineText, selection.end, Len(lineText))), 1, <<"(">>)

\* the expression to print: the selection, or the selection with the $ that
\* precedes it; << >> stands for null
expressionOf(selectedClean, currentLineText, selection) ==
  IF StartsWithAt(selectedClean, 1, <<"$">>)
  THEN IF isPhpVariable(selectedClean) THEN selectedClean ELSE << >>
  ELSE IF isPhpFunctionOrStaticCall(selectedClean) THEN selectedClean
  ELSE IF /\ selection.start - 1 >= 0
          /\ charAt(currentLineText, selection.start - 1) = "$"
          /\ isPhpVariable(<<"$">> \o selectedClean)
       THEN <<"$">> \o selectedClean
       ELSE << >>

\* getPrintStatement for the language php
getPrintStatement(expression) ==
  <<"v", "a", "r", "_", "d", "u", "m", "p", "(">> \o expression \o
  <<")", ";", "e", "x", "i", "t", ";">>

\* the loop of checkBraceBalance at the character j of the line i (0-based)
RECURSIVE balanceFrom(_, _, _, _)
balanceFrom(document, i, j, balance) ==
  IF i >= Len(document) THEN [ok |-> balance = 0, line |-> 0]
  ELSE IF j >= Len(lineAt(document, i)) THEN balanceFrom(document, i + 1, 0, balance)
  ELSE IF charAt(lineAt(document, i), j) = "{"
  THEN balanceFrom(document, i, j + 1, balance + 1)
  ELSE IF charAt(lineAt(document, i), j) = "}"
  THEN IF balance - 1 < 0 THEN [ok |-> FALSE, line |-> i + 1]
       ELSE balanceFrom(document, i, j + 1, balance - 1)
  ELSE balanceFrom(document, i, j + 1, balance)

\* a check that finds every document balanced
braceCheckOff(document) == [ok |-> TRUE, line |-> 0]

\* checkBraceBalance: line is the line number of its message, 0 for the
\* message that names no line
checkBraceBalance(document) == balanceFrom(document, 0, 0, 0)

\* the checks of the command before the insertion point is looked for: the
\* warning or error shown, "" for none
rejection(document, selection, selected, currentLineText, expression) ==
  IF Len(selected) = 0 THEN "noSelection"
  ELSE IF isQuotedStringContext(currentLineText, selection) THEN "inString"
  ELSE IF /\ ~includes(selected, <<"(">>)
          /\ looksLikeFunctionCall(currentLineText, selection)
       THEN "selectFullCall"
  ELSE IF expression = << >> THEN "notVariableOrCallable"
  ELSE IF ~checkBraceBalance(document).ok THEN "unbalanced"
  ELSE ""

\* ------------------------------------------------------------------------
\* The dumpVariable command: the insertion point and the edit
\* ------------------------------------------------------------------------

\* getIndent: the blanks a line begins with
getIndent(text) == SubSeq(text, 1, SkipSpaces(text, 1) - 1)

\* ' '.repeat(size)
spaces(size) == [i \in 1..size |-> " "]

\* getIndentIncrement with the options of the editor
getIndentIncrement(options, baseIndent) ==
  IF includes(baseIndent, <<"\t">>) THEN <<"\t">>
  ELSE IF options.insertSpaces THEN spaces(options.tabSize) ELSE <<"\t">>

\* the loop of getPreviousContentIndent at line i
RECURSIVE getPreviousContentIndent(_, _)
getPreviousContentIndent(document, i) ==
  IF i < 0 THEN << >>
  ELSE IF trim(lineAt(document, i)) \in {<< >>, <<"}">>, <<"{">>}
  THEN getPreviousContentIndent(document, i - 1)
  ELSE getIndent(lineAt(document, i))

\* The body of the loop of findStatementEndPosition over the characters of a
\* line: st holds str ("" for null), esc, p, b, c and end, the offset after
\* the ";" that ends the statement (-1 until it is found).
statementStep(ch, i, st) ==
  IF st.str # ""
  THEN IF ch = "\\" THEN [st EXCEPT !.esc = ~st.esc]
       ELSE [st EXCEPT !.str = IF ch = st.str /\ ~st.esc THEN "" ELSE st.str,
                       !.esc = FALSE]
  ELSE IF ch \in {"\"", "'"} THEN [st EXCEPT !.str = ch, !.esc = FALSE]
  ELSE IF ch = "(" THEN [st EXCEPT !.p = st.p + 1]
  ELSE IF ch = ")" THEN [st EXCEPT !.p = IF st.p > 0 THEN st.p - 1 ELSE st.p]
  ELSE IF ch = "[" THEN [st EXCEPT !.b = st.b + 1]
  ELSE IF ch = "]" THEN [st EXCEPT !.b = IF st.b > 0 THEN st.b - 1 ELSE st.b]
  ELSE IF ch = "{" THEN [st EXCEPT !.c = st.c + 1]
  ELSE IF ch = "}" THEN [st EXCEPT !.c = IF st.c > 0 THEN st.c - 1 ELSE st.c]
  ELSE IF ch = ";" /\ st.p = 0 /\ st.b = 0 /\ st.c = 0 THEN [st EXCEPT !.end = i + 1]
  ELSE st

\* the loop over the characters of the line t from the offset i
RECURSIVE statementEndInLine(_, _, _)
statementEndInLine(t, i, st) ==
  IF i >= Len(t) \/ st.end >= 0 THEN st
  ELSE statementEndInLine(t, i + 1, statementStep(charAt(t, i), i, st))

\* the loop of findStatementEndPosition over the lines, at the character ci
\* of the line li; statementEndOn goes on from the end r of the loop over the
\* characters of that line
RECURSIVE statementEndFrom(_, _, _, _, _)
statementEndOn(document, fromLine, li, r) ==
  IF r.end >= 0 THEN [line |-> li, character |-> r.end]
  ELSE statementEndFrom(document, fromLine, li + 1, 0, r)

statementEndFrom(document, fromLine, li, ci, st) ==
  IF li >= Len(document)
  THEN [line |-> Min({fromLine + 1, Len(document)}), character |-> 0]
  ELSE statementEndOn(document, fromLine, li,
                      statementEndInLine(lineAt(document, li), ci, st))

findStatementEndPosition(document, fromLine, fromChar) ==
  statementEndFrom(document, fromLine, fromLine, fromChar,
                   [str |-> "", esc |-> FALSE, p |-> 0, b |-> 0, c |-> 0, end |-> -1])

\* analyzeBrackets: the index of the line taken for the next line
nextLineIndex(document, selection) == Min({selection.line + 1, Len(document) - 1})

\* the loop that looks for the next line that is not blank, at line n
RECURSIVE nextNonEmptyFrom(_, _)
nextNonEmptyFrom(document, n) ==
  IF n < Len(document) /\ Len(trim(lineAt(document, n))) = 0
  THEN nextNonEmptyFrom(document, n + 1)
  ELSE n

\* a || b of two strings
orElse(a, b) == IF a # << >> THEN a ELSE b

\* An insertion plan: the target position, the indentation, whether the text
\* starts with a line break; threw tells that the command threw instead.
Plan(line, character, indent, closingBraceCase) ==
  [threw |-> FALSE, line |-> line, character |-> character, indent |-> indent,
   closingBraceCase |-> closingBraceCase]

NoPlan == [threw |-> TRUE, line |-> 0, character |-> 0, indent |-> << >>,
           closingBraceCase |-> FALSE]

\* the target after the end of the statement; lineAt throws for a line past
\* the last one
planAfterStatement(document, endPos) ==
  IF endPos.line >= Len(document) THEN NoPlan
  ELSE Plan(endPos.line + 1, 0,
            orElse(getPreviousContentIndent(document, endPos.line),
                   getIndent(lineAt(document, endPos.line))),
            FALSE)

\* the target when the next line is neither "{" nor "}": openIdx is the offset
\* of the first "{" of the current line, nextNonEmpty the next line with text
planOnLine(document, selection, options, currLineText, openIdx, nextNonEmpty) ==
  IF /\ openIdx >= 0
     /\ StartsWithAt(trim(slice(currLineText, openIdx + 1, Len(currLineText))), 1, <<"}">>)
  THEN Plan(selection.line,
            Max({0, indexOf(currLineText, <<"}">>, openIdx + 1)}),
            getIndent(currLineText) \o
              getIndentIncrement(options, getIndent(currLineText)),
            TRUE)
  ELSE IF /\ openIdx >= 0
          /\ nextNonEmpty < Len(document)
          /\ StartsWithAt(trim(lineAt(document, nextNonEmpty)), 1, <<"}">>)
  THEN Plan(nextNonEmpty, 0,
            getIndent(lineAt(document, nextNonEmpty)) \o
              getIndentIncrement(options, getIndent(lineAt(document, nextNonEmpty))),
            FALSE)
  ELSE planAfterStatement(document,
         findStatementEndPosition(document, selection.line, selection.end))

\* the target selection of the command: next is the index of the next line
planWith(document, selection, options, next) ==
  IF trim(lineAt(document, next)) = <<"{">>
  THEN Plan(Min({next + 1, Len(document)}), 0,
            getIndent(lineAt(document, next)) \o
              getIndentIncrement(options, getIndent(lineAt(document, next))),
            FALSE)
  ELSE IF trim(lineAt(document, next)) = <<"}">>
  THEN Plan(next, 0,
            orElse(getPreviousContentIndent(document, selection.line),
                   getIndent(lineAt(document, selection.line))),
            FALSE)
  ELSE planOnLine(document, selection, options, lineAt(document, selection.line),
                  indexOf(lineAt(document, selection.line), <<"{">>, 0),
                  nextNonEmptyFrom(document, next))

planOf(document, selection, options) ==
  planWith(document, selection, options, nextLineIndex(document, selection))

\* a text that never starts with a line break
noLeadingNewline(closingBraceCase) == << >>

\* (closingBraceCase ? '\n' : '')
leadingNewline(closingBraceCase) == IF closingBraceCase THEN <<"\n">> ELSE << >>

\* the text handed to builder.insert
insertTextOf(plan, dumpLine) ==
  leadingNewline(plan.closingBraceCase) \o plan.indent \o dumpLine \o <<"\n">>

\* the lines of a text
RECURSIVE splitLinesFrom(_, _, _)
splitLinesFrom(t, i, current) ==
  IF i > Len(t) THEN <<current>>
  ELSE IF t[i] = "\n" THEN <<current>> \o splitLinesFrom(t, i + 1, << >>)
  ELSE splitLinesFrom(t, i + 1, Append(current, t[i]))

insertInLine(document, line, character, text) ==
  SubSeq(document, 1, line) \o
  splitLinesFrom(slice(lineAt(document, line), 0, character) \o text \o
                 slice(lineAt(document, line), character,
                       Len(lineAt(document, line))), 1, << >>) \o
  SubSeq(document, line + 2, Len(document))

\* builder.insert(targetPosition, insertText): the editor moves a position
\* past the end of the document to the end of its last line
insert(document, plan, text) ==
  IF plan.line >= Len(document)
  THEN insertInLine(document, Len(document) - 1,
                    Len(lineAt(document, Len(document) - 1)), text)
  ELSE insertInLine(document, plan.line,
                    Min({plan.character, Len(lineAt(document, plan.line))}), text)

\* a command that goes on after a warning
neverReturnsEarly(rejected) == FALSE

\* the `return` after each warning and after the error of the brace check
returnsEarly(rejected) == rejected # ""

\* the command from its checks on: rejected is the message of the checks,
\* plan the insertion plan, text the text to insert
commandEnd(document, rejected, plan, text) ==
  [outcome |-> IF rejected # "" THEN rejected
               ELSE IF plan.threw THEN "threw" ELSE "inserted",
   line |-> IF rejected = "unbalanced" THEN checkBraceBalance(document).line ELSE 0,
   plan |-> IF returnsEarly(rejected) THEN NoPlan ELSE plan,
   insertText |-> IF returnsEarly(rejected) THEN << >> ELSE text,
   doc |-> IF returnsEarly(rejected) \/ plan.threw THEN document
           ELSE insert(document, plan, text)]

commandWith(document, selection, options, selected, currentLineText, expression) ==
  commandEnd(document,
             rejection(document, selection, selected, currentLineText, expression),
             planOf(document, selection, options),
             insertTextOf(planOf(document, selection, options),
                          getPrintStatement(expression)))

commandOn(document, selection, options, selected, currentLineText) ==
  commandWith(document, selection, options, selected, currentLineText,
              expressionOf(stripTrailingSemicolon(selected), currentLineText, selection))

\* what the dumpVariable command does with the selection in the document
dumpVariableCommand(document, selection, options) ==
  commandOn(document, selection, options, trim(getText(document, selection)),
            lineAt(document, selection.line))

\* ------------------------------------------------------------------------
\* Specification SpecDump: a document, a selection and the command
\* ------------------------------------------------------------------------

\* the lines a document is made of, each with the offsets at which a
\* selection in it starts or ends
DumpLines ==
  {
   \* a function header
   [text |-> <<"f", "u", "n", "c", "t", "i", "o", "n", " ", "f", "(", ")", " ", "{">>,
    cuts |-> {0}],
   \* an empty block
   [text |-> <<" ", " ", "i", "f", " ", "(", "$", "x", ")", " ", "{", "}">>,
    cuts |-> {6, 8}],
   \* a closing brace
   [text |-> <<"}">>,
    cuts |-> {0}],
   \* an opening brace
   [text |-> <<"{">>,
    cuts |-> {0}],
   \* a variable between two string literals
   [text |-> <<" ", " ", "f", "o", "o", "(", "\"", "a", "\"", ",", " ", "$", "x", ",", " ", "\"", "b", "\"", ")", ";">>,
    cuts |-> {11, 13}],
   \* a variable inside a string literal
   [text |-> <<" ", " ", "e", "c", "h", "o", " ", "\"", "$", "x", "\"", ";">>,
    cuts |-> {8, 10}],
   \* an assignment of a call
   [text |-> <<" ", " ", "$", "y", " ", "=", " ", "f", "o", "o", "(", "$", "x", ")", ";">>,
    cuts |-> {2, 4, 7, 10, 11, 13, 14}],
   \* a blank line
   [text |-> <<>>,
    cuts |-> {0}],
   \* a block and an empty block
   [text |-> <<"\t", "i", "f", " ", "(", "$", "a", ")", " ", "{", " ", "$", "b", ";", " ", "}", " ", "e", "l", "s", "e", " ", "{", "}">>,
    cuts |-> {5, 7, 11, 13}],
   \* an empty block, indented with a tab
   [text |-> <<"\t", "w", "h", "i", "l", "e", " ", "(", "$", "t", ")", " ", "{", " ", "}">>,
    cuts |-> {8, 10}]
  }

\* the number of lines of the document
MaxDumpLines == 3

\* the lines of a document with a block: a statement in the block, a blank
\* line before its closing brace, statements that go on over a ";" inside a
\* string literal or inside brackets
InsertLines ==
  {
   \* the opener of a block
   [text |-> <<"i", "f", " ", "(", "$", "a", ")", " ", "{">>,
    cuts |-> {4, 6}],
   \* an assignment of a call
   [text |-> <<" ", " ", "$", "y", " ", "=", " ", "f", "(", "$", "x", ")", ";">>,
    cuts |-> {2, 4, 9, 11}],
   \* a blank line
   [text |-> <<>>,
    cuts |-> {0}],
   \* a closing brace
   [text |-> <<"}">>,
    cuts |-> {0}],
   \* a statement that goes on after a ";" in a string literal
   [text |-> <<" ", " ", "$", "z", " ", "=", " ", "$", "x", " ", ".", " ", "\"", ";", "\"", " ", ".">>,
    cuts |-> {7, 9}],
   \* a call with a closure as its second argument
   [text |-> <<"g", "(", "$", "x", ",", "f", "n", "(", ")", "{", "1", ";", "}", ")", ";">>,
    cuts |-> {0, 2, 4, 14}]
  }

\* the number of lines of a document with a block
MaxInsertLines == 4

\* editor.options
EditorOptions == [insertSpaces : BOOLEAN, tabSize : {2, 4}]

cutsOf(text) == (CHOOSE l \in DumpLines \cup InsertLines : l.text = text).cuts

\* the selections of the user: in one line, from one offset to another, or
\* empty
Selections(document) ==
  UNION {{[line |-> i, start |-> c[1], end |-> c[2]] :
            c \in {d \in cutsOf(lineAt(document, i)) \X cutsOf(lineAt(document, i)) :
                     d[1] <= d[2]}} :
         i \in 0..(Len(document) - 1)}

\* every selection in a document of the lines
AllCuts == UNION {l.cuts : l \in DumpLines}

AllSelections ==
  {[line |-> i, start |-> c[1], end |-> c[2]] :
     i \in 0..(MaxDumpLines - 1), c \in {d \in AllCuts \X AllCuts : d[1] <= d[2]}}

\* the user adds a line to the document
DumpTypeLine(l) ==
  /\ ~dump.ran
  /\ Len(dump.doc) < MaxDumpLines
  /\ dump' = [dump EXCEPT !.doc = Append(dump.doc, l.text)]
  /\ UNCHANGED <<scannerVars, envVars, guardVars, clearVars, lex, dirVars, watch, expr, view, tree>>

dumped(selection, options, r) ==
  [dump EXCEPT !.ran = TRUE, !.before = dump.doc, !.selection = selection,
               !.options = options, !.outcome = r.outcome, !.line = r.line,
               !.plan = r.plan, !.insertText = r.insertText, !.doc = r.doc]

\* the user runs the command phpVarDumper.dumpVariable
dumpVariable(selection, options) ==
  /\ ~dump.ran
  /\ selection \in Selections(dump.doc)
  /\ dump' = dumped(selection, options,
                    dumpVariableCommand(dump.doc, selection, options))
  /\ UNCHANGED <<scannerVars, envVars, guardVars, clearVars, lex, dirVars, watch, expr, view, tree>>

\* every selection in a document with a block
InsertSelections ==
  {[line |-> i, start |-> c[1], end |-> c[2]] :
     i \in 0..(MaxInsertLines - 1),
     c \in {d \in (UNION {l.cuts : l \in InsertLines}) \X
                   (UNION {l.cuts : l \in InsertLines}) : d[1] <= d[2]}}

\* the user adds a line to the document with a block
InsertTypeLine(l) ==
  /\ ~dump.ran
  /\ Len(dump.doc) < MaxInsertLines
  /\ dump' = [dump EXCEPT !.doc = Append(dump.doc, l.text)]
  /\ UNCHANGED <<scannerVars, envVars, guardVars, clearVars, lex, dirVars, watch, expr, view, tree>>

NextDump ==
  \/ \E l \in DumpLines : DumpTypeLine(l)
  \/ \E selection \in AllSelections : \E options \in EditorOptions :
       dumpVariable(selection, options)

SpecDump == Init /\ [][NextDump]_vars

\* Specification SpecInsert: the command in a document with a block
NextInsert ==
  \/ \E l \in InsertLines : InsertTypeLine(l)
  \/ \E selection \in InsertSelections : \E options \in EditorOptions :
       dumpVariable(selection, options)

SpecInsert == Init /\ [][NextInsert]_vars

\* ------------------------------------------------------------------------
\* Properties of the scan results (specifications SpecDirs and Spec)
\* ------------------------------------------------------------------------

\* C19: the result of a scanWorkspace call that could not list a directory
\* has an entry for that directory in its errors.
C19_ListingFailureRecorded ==
  \A s \in Callers :
    (call[s].pc = "returned" /\ call[s].kind = "workspace") =>
      \A d \in Reached \cap unlistable :
        \E i \in 1..Len(call[s].result.errors) : call[s].result.errors[i].filePath = d

\* the scanFile calls of the scan c that threw
failedTasks(c) == {k \in 1..Len(c.settled) : c.settled[k].st = "failed"}

\* C20: in the result of a scanFiles call that the guard let run,
\* scannedFiles is the number of the paths passed that end in .php in any
\* case and that no rule excludes, totalStatements is the length of
\* statements, and errors has one entry for each file whose scan failed, of
\* which statements has nothing.
C20_ScanFilesCounts ==
  \A s \in Callers :
    (call[s].pc = "returned" /\ call[s].kind = "files") =>
      /\ call[s].result.scannedFiles =
           Cardinality({k \in 1..Len(call[s].filePaths) :
              /\ endsWith(toLowerCase(pathName(call[s].filePaths[k])), <<".", "p", "h", "p">>)
              /\ call[s].filePaths[k] \notin excluded})
      /\ call[s].result.totalStatements = Len(call[s].result.statements)
      /\ Len(call[s].result.errors) = Cardinality(failedTasks(call[s]))
      /\ \A k \in failedTasks(call[s]) :
           /\ Cardinality({i \in 1..Len(call[s].result.errors) :
                 call[s].result.errors[i].filePath = call[s].settled[k].path}) = 1
           /\ \A i \in 1..Len(call[s].result.statements) :
                 call[s].result.statements[i].filePath # call[s].settled[k].path

\* a scanFiles call with a path in upper case and a file whose scan failed
C20_Witness ==
  \E s \in Callers :
    /\ call[s].pc = "returned"
    /\ call[s].kind = "files"
    /\ call[s].filePaths = <<5, 2>>
    /\ call[s].result.scannedFiles = 2
    /\ failedTasks(call[s]) # {}
    /\ call[s].result.statements # << >>

\* ------------------------------------------------------------------------
\* Properties of the dumpVariable command (specification SpecDump)
\* ------------------------------------------------------------------------

\* the number of characters c of the document up to the character j of the
\* line i (0-based, both included)
countUpTo(document, c, i, j) ==
  Cardinality(UNION {{<<a, b>> : b \in {k \in 0..(Len(lineAt(document, a)) - 1) :
                                          /\ a < i \/ k <= j
                                          /\ charAt(lineAt(document, a), k) = c}} :
                     a \in 0..i})

\* the lines (0-based) that hold a "}" with no "{" left open before it
unmatchedLines(document) ==
  {i \in 0..(Len(document) - 1) :
     \E j \in 0..(Len(lineAt(document, i)) - 1) :
        /\ charAt(lineAt(document, i), j) = "}"
        /\ countUpTo(document, "}", i, j) > countUpTo(document, "{", i, j)}

\* the 1-based number of the first of these lines, 0 when there is none
firstUnmatchedLine(document) ==
  IF unmatchedLines(document) = {} THEN 0 ELSE Min(unmatchedLines(document)) + 1

bracesUnbalanced(document) ==
  \/ unmatchedLines(document) # {}
  \/ countUpTo(document, "{", Len(document) - 1, Len(lineAt(document, Len(document) - 1)))
       # countUpTo(document, "}", Len(document) - 1,
                   Len(lineAt(document, Len(document) - 1)))

\* the warnings about the selection
SelectionWarnings ==
  {"noSelection", "inString", "selectFullCall", "notVariableOrCallable"}

\* C14: with unbalanced braces in the document the command shows a message
\* and edits nothing; when the selection itself is accepted the message is
\* the error of the brace check, and it names the line of the first "}" that
\* nothing opened (no line when every "}" is matched and a "{" stays open).
C14_UnbalancedBracesRejected ==
  (dump.ran /\ bracesUnbalanced(dump.before)) =>
    /\ dump.doc = dump.before
    /\ dump.outcome \in SelectionWarnings \cup {"unbalanced"}
    /\ dump.outcome \notin SelectionWarnings =>
         /\ dump.outcome = "unbalanced"
         /\ dump.line = firstUnmatchedLine(dump.before)

\* C14 as stated: with unbalanced braces the command reports the error of the
\* brace check, naming the line of the first unmatched "}", and edits nothing.
C14_UnbalancedAlwaysBraceError ==
  (dump.ran /\ bracesUnbalanced(dump.before)) =>
    /\ dump.doc = dump.before
    /\ dump.outcome = "unbalanced"
    /\ dump.line = firstUnmatchedLine(dump.before)

\* an accepted selection in a document whose second or third line holds the
\* first unmatched "}"
C14_Witness ==
  /\ dump.ran
  /\ dump.outcome = "unbalanced"
  /\ dump.line > 1
  /\ dump.selection.line < dump.line - 1

\* C15: a request that the command rejects leaves the document as it was.
C15_RejectionEditsNothing ==
  (dump.ran /\ dump.outcome \in SelectionWarnings \cup {"unbalanced"}) =>
    dump.doc = dump.before

\* every kind of rejection occurs; here a selection that a "(" follows
C15_Witness ==
  /\ dump.ran
  /\ dump.outcome = "selectFullCall"
  /\ Len(dump.before) > 1

\* the text after the "{" at offset k of the line is, trimmed, at once a "}"
emptyBlockAt(text, k) ==
  /\ charAt(text, k) = "{"
  /\ StartsWithAt(trim(slice(text, k + 1, Len(text))), 1, <<"}">>)

\* the insertion of the run goes into the empty block opened at offset k of
\* the line of the selection: at the "}" of the block, after a line break,
\* indented one step more than the line
insertedInBlock(text, k) ==
  /\ dump.plan.line = dump.selection.line
  /\ dump.plan.character = indexOf(text, <<"}">>, k + 1)
  /\ StartsWithAt(dump.insertText, 1, <<"\n">> \o dump.plan.indent)
  /\ dump.plan.indent = getIndent(text) \o getIndentIncrement(dump.options, getIndent(text))

nextLineIsBrace ==
  trim(lineAt(dump.before, nextLineIndex(dump.before, dump.selection)))
    \in {<<"{">>, <<"}">>}

RECURSIVE openQuoteFrom(_, _, _, _)
openQuoteFrom(text, i, n, quote) ==
  IF i >= n THEN quote
  ELSE IF quote # ""
  THEN IF charAt(text, i) = "\\" THEN openQuoteFrom(text, i + 2, n, quote)
       ELSE openQuoteFrom(text, i + 1, n, IF charAt(text, i) = quote THEN "" ELSE quote)
  ELSE openQuoteFrom(text, i + 1, n,
                     IF charAt(text, i) \in {"\"", "'"} THEN charAt(text, i) ELSE "")

\* C18: a selection (not empty) is rejected as inside a string literal
\* exactly when a quote of its line is still open where it starts.
C18_InStringIffOpenQuote ==
  (dump.ran /\ dump.outcome # "noSelection") =>
    (dump.outcome = "inString" <=>
       openQuoteFrom(lineAt(dump.before, dump.selection.line), 0,
                     dump.selection.start, "") # "")


\* ------------------------------------------------------------------------
\* Properties of the insertion point (specification SpecInsert)
\* ------------------------------------------------------------------------

\* the command ran and did not reject the selection or the document
commandWentOn == dump.ran /\ dump.outcome \in {"inserted", "threw"}

\* a text holds an empty block: an opening brace with, after blanks only, a
\* closing brace
holdsEmptyBlock(text) ==
  \E i \in 1..Len(text) :
    /\ text[i] = "{"
    /\ SkipSpaces(text, i + 1) <= Len(text)
    /\ text[SkipSpaces(text, i + 1)] = "}"

\* the lines after line i of a document that are not blank
contentAfter(document, i) ==
  {j \in (i + 1)..(Len(document) - 1) : Len(trim(lineAt(document, j))) > 0}

\* the line of the opener of the block that a closing brace closes, looked
\* for backwards from the offset i of line j with depth blocks closed on the
\* way; -1 when there is none
RECURSIVE openerFrom(_, _, _, _)
openerFrom(document, j, i, depth) ==
  IF j < 0 THEN -1
  ELSE IF i < 0
  THEN openerFrom(document, j - 1,
                  IF j > 0 THEN Len(lineAt(document, j - 1)) - 1 ELSE -1, depth)
  ELSE IF charAt(lineAt(document, j), i) = "}"
  THEN openerFrom(document, j, i - 1, depth + 1)
  ELSE IF charAt(lineAt(document, j), i) = "{"
  THEN IF depth = 0 THEN j ELSE openerFrom(document, j, i - 1, depth - 1)
  ELSE openerFrom(document, j, i - 1, depth)

\* the line of the opener of the block closed by the lone brace of line n
openerOf(document, n) ==
  openerFrom(document, n - 1, Len(lineAt(document, n - 1)) - 1, 0)

\* the case of the claim: the line after the selection is neither "{" nor
\* "}", the line of the selection holds no empty block, and the next line
\* with text is a lone closing brace
beforeLoneCloser ==
  /\ commandWentOn
  /\ trim(lineAt(dump.before, nextLineIndex(dump.before, dump.selection)))
       \notin {<<"{">>, <<"}">>}
  /\ ~holdsEmptyBlock(lineAt(dump.before, dump.selection.line))
  /\ contentAfter(dump.before, dump.selection.line) # {}
  /\ trim(lineAt(dump.before, Min(contentAfter(dump.before, dump.selection.line))))
       = <<"}">>

\* C36: when the line after the selection is neither "{" nor "}", the line
\* of the selection holds no empty block and the next line with text is a
\* lone closing brace, the text is inserted at the start of that line, with
\* the indentation of the opener of the block plus one step, whether or not
\* the line of the selection holds an opening brace.
C36_BeforeLoneCloser ==
  beforeLoneCloser =>
    LET closer == Min(contentAfter(dump.before, dump.selection.line))
        opener == lineAt(dump.before, openerOf(dump.before, closer))
    IN /\ dump.outcome = "inserted"
       /\ dump.plan.line = closer
       /\ dump.plan.character = 0
       /\ dump.plan.indent =
            getIndent(opener) \o getIndentIncrement(dump.options, getIndent(opener))
\* the text of a document from the offset c of its line i to its end, the
\* lines joined by line breaks
RECURSIVE textFrom(_, _, _)
textFrom(document, i, c) ==
  IF i >= Len(document) THEN << >>
  ELSE slice(lineAt(document, i), c, Len(lineAt(document, i))) \o
       (IF i + 1 < Len(document) THEN <<"\n">> \o textFrom(document, i + 1, 0)
        ELSE << >>)

\* The number of line breaks before the first ";" of a text that stands
\* outside every string literal and at depth 0 of "()", "[]" and "{}", the
\* depths counted from the start of the text, a closer at depth 0 counting
\* for nothing; -1 when the text has no such ";".  q is the open quote ("" for
\* none), esc tells that the last character of the string was an escaping
\* backslash, d = <<p, b, c>> the depths, n the line breaks passed.
RECURSIVE semicolonLine(_, _, _, _, _, _)
semicolonLine(t, k, q, esc, d, n) ==
  IF k > Len(t) THEN -1
  ELSE LET ch == t[k]
           up(x) == [d EXCEPT ![x] = d[x] + 1]
           down(x) == [d EXCEPT ![x] = IF d[x] > 0 THEN d[x] - 1 ELSE 0]
           m == IF ch = "\n" THEN n + 1 ELSE n
       IN IF ch = "\n" THEN semicolonLine(t, k + 1, q, esc, d, m)
          ELSE IF q # ""
          THEN IF ch = "\\" THEN semicolonLine(t, k + 1, q, ~esc, d, m)
               ELSE IF ch = q /\ ~esc THEN semicolonLine(t, k + 1, "", FALSE, d, m)
               ELSE semicolonLine(t, k + 1, q, FALSE, d, m)
          ELSE IF ch \in {"\"", "'"} THEN semicolonLine(t, k + 1, ch, FALSE, d, m)
          ELSE IF ch = "(" THEN semicolonLine(t, k + 1, q, esc, up(1), m)
          ELSE IF ch = ")" THEN semicolonLine(t, k + 1, q, esc, down(1), m)
          ELSE IF ch = "[" THEN semicolonLine(t, k + 1, q, esc, up(2), m)
          ELSE IF ch = "]" THEN semicolonLine(t, k + 1, q, esc, down(2), m)
          ELSE IF ch = "{" THEN semicolonLine(t, k + 1, q, esc, up(3), m)
          ELSE IF ch = "}" THEN semicolonLine(t, k + 1, q, esc, down(3), m)
          ELSE IF ch = ";" /\ d = <<0, 0, 0>> THEN n
          ELSE semicolonLine(t, k + 1, q, esc, d, m)

\* the line of the ";" that ends the statement of the selection, -1 when the
\* document has none
endLineOf(document, selection) ==
  LET n == semicolonLine(textFrom(document, selection.line, selection.end),
                         1, "", FALSE, <<0, 0, 0>>, 0)
  IN IF n < 0 THEN -1 ELSE selection.line + n

\* the nearest line at or above line i that has text and is not a lone brace
contentAtOrAbove(document, i) ==
  Max({j \in 0..i : trim(lineAt(document, j)) \notin {<< >>, <<"{">>, <<"}">>}})

\* no brace rule applies: the line after the selection is neither "{" nor
\* "}", the line of the selection holds no empty block and the next line
\* with text is no lone closing brace
noBraceRule ==
  /\ commandWentOn
  /\ trim(lineAt(dump.before, nextLineIndex(dump.before, dump.selection)))
       \notin {<<"{">>, <<"}">>}
  /\ ~holdsEmptyBlock(lineAt(dump.before, dump.selection.line))
  /\ \/ contentAfter(dump.before, dump.selection.line) = {}
     \/ trim(lineAt(dump.before, Min(contentAfter(dump.before, dump.selection.line))))
          # <<"}">>

\* C37: when no brace rule applies the text is inserted at the start of the
\* line after the line of the first ";" at or after the end of the selection
\* that stands outside strings and at depth 0 of the brackets opened since
\* the end of the selection, with the indentation of the nearest line at or
\* above the line of that ";" that has text and is not a lone brace; the
\* target line is a line of the document or the line after its last one,
\* also when there is no such ";".
C37_AfterStatementEnd ==
  noBraceRule =>
    LET end == endLineOf(dump.before, dump.selection)
    IN /\ dump.outcome = "inserted"
       /\ dump.plan.line \in 0..Len(dump.before)
       /\ end >= 0 =>
            /\ dump.plan.line = end + 1
            /\ dump.plan.character = 0
            /\ dump.plan.indent =
                 getIndent(lineAt(dump.before, contentAtOrAbove(dump.before, end)))
\* ------------------------------------------------------------------------
\* The inserted line under the scanner (specification SpecInsert)
\* ------------------------------------------------------------------------

\* the statement the command inserted
insertedStatement ==
  getPrintStatement(
    expressionOf(stripTrailingSemicolon(trim(getText(dump.before, dump.selection))),
                 lineAt(dump.before, dump.selection.line), dump.selection))

\* the command inserted its text before a line of the document: the text is
\* a line of its own
insertedOwnLine ==
  /\ dump.ran
  /\ dump.outcome = "inserted"
  /\ dump.plan.line < Len(dump.before)

\* the number (from 1) of the line of the document that holds the inserted
\* statement
insertedLineNumber ==
  IF dump.plan.closingBraceCase THEN dump.plan.line + 2 ELSE dump.plan.line + 1

\* the statements of a list on the line n, and those on the other lines
statementsAt(statements, n) == SelectSeq(statements, LAMBDA st : st.lineNumber = n)

statementsOff(statements, n) == SelectSeq(statements, LAMBDA st : st.lineNumber # n)

\* what a list of statements reports, apart from the positions
reported(statements) ==
  [k \in 1..Len(statements) |->
     <<statements[k].type, statements[k].content, statements[k].severity>>]

\* C39: after the command inserted its line, a scan of the document reports
\* for that line exactly one statement, of type var_dump and severity error,
\* whose content is the inserted statement, and reports for the other lines
\* what a scan reported before the insertion.
C39_InsertedLineScanned ==
  insertedOwnLine =>
    LET after == scanContent(1, dump.doc)
        own == statementsAt(after, insertedLineNumber)
    IN /\ Len(own) = 1
       /\ own[1].type = "var_dump"
       /\ own[1].severity = "error"
       /\ own[1].content = insertedStatement
       /\ reported(statementsOff(after, insertedLineNumber)) =
            reported(scanContent(1, dump.before))

\* ------------------------------------------------------------------------
\* Specification SpecExclude: the command phpDebugManager.exclude.addDir on
\* the folders of the tree, the scan it starts, and scanFiles calls
\* ------------------------------------------------------------------------

\* phpDebugManager.exclude.addDir on the node of directory d, from the view
\* (caller s): updateExcludePatterns adds `${node.filePath}/**` to the
\* setting if it is not there, reloadScannerConfig compiles the patterns
\* again, and performScan runs up to the first await of scanWorkspace.
excludeAddDir(s, d) ==
  /\ call[s].pc = "idle"
  /\ excluded' = excluded \cup matchedBy(d)
  /\ scanWorkspaceBegin(s, TRUE)
  /\ lastScanResult' = IF call'[s].pc = "rejected"
                       THEN updateTreeData(call'[s].result)
                       ELSE lastScanResult
  /\ UNCHANGED <<doc, bookmarks>>
  /\ UNCHANGED <<fs, onScanComplete, fileCache, scanResults>>
  /\ UNCHANGED <<guardVars, lex, dirVars, sideVars>>

NextExclude ==
  \/ \E s \in ViewCallers : \E d \in Directories : excludeAddDir(s, d)
  \/ \E s \in Callers : \E filePaths \in ScanInputs : CallScanFiles(s, filePaths)
  \/ \E s \in Callers : CallOver(s)
  \/ \E s \in Callers : ProviderCollected(s)
  \/ \E s \in Callers : \E k \in 1..2 : TaskStat(s, k)
  \/ \E s \in Callers : \E k \in 1..2 : TaskRead(s, k)
  \/ \E s \in Callers : ProviderBatchDone(s)
  \/ \E s \in Callers : ProviderCleanupDone(s)

SpecExclude == Init /\ [][NextExclude]_vars

\* the file p is in the directory d, at any depth
isUnder(d, p) ==
  LET prefix == pathName(d) \o <<"/">>
  IN Len(pathName(p)) > Len(prefix) /\ SubSeq(pathName(p), 1, Len(prefix)) = prefix

\* the pattern `D/**` of directory d is in the exclude list: the paths it
\* matches are excluded (the command is all that adds to the list here)
dirPatternListed(d) == matchedBy(d) # {} /\ matchedBy(d) \subseteq excluded

\* the .php files under the directories whose pattern `D/**` is in the list
underExcludedDir ==
  {p \in AllPaths : /\ endsWithPhp(p)
                    /\ \E d \in Directories : dirPatternListed(d) /\ isUnder(d, p)}

\* the step is a scanFiles call of caller s that the guard lets through
scanFilesStarts(s) ==
  /\ call[s].pc = "idle"
  /\ call'[s].kind = "files"
  /\ call'[s].pc # "rejected"

\* C40: with the pattern `D/**` in the exclude list, isExcluded is true for
\* every .php file under D at any depth, a scanFiles call takes none of them
\* as a target, and the result of a scanFiles call has statements of its
\* targets only.
C40_DirectoryExcluded ==
  [][/\ \A p \in underExcludedDir : isExcluded(p)
     /\ \A s \in Callers :
          scanFilesStarts(s) =>
            \A k \in 1..Len(call'[s].targets) : call'[s].targets[k] \notin underExcludedDir
     /\ \A s \in Callers :
          (call'[s].pc = "returned" /\ call'[s].kind = "files") =>
            \A k \in 1..Len(call'[s].result.statements) :
              \E t \in 1..Len(call'[s].targets) :
                call'[s].result.statements[k].filePath = call'[s].targets[t]]_vars
====
